---------------------------- MODULE Spec2Model ----------------------------
(***************************************************************************)
(* A model of the bazaar trading engine: the Wallet, the Bundle / Position *)
(* algebra, the order reconciliation of Exchange::execute and the run      *)
(* loop of Exchange::run.                                                  *)
(*                                                                         *)
(* Decimals are modelled as integers: a size is a number of size units, a  *)
(* price and a quote amount a number of quote units.  The quote unit is    *)
(* the grid round_dp rounds to, the size unit the last digit a Decimal     *)
(* quotient is rounded to.                                                 *)
(***************************************************************************)
EXTENDS Integers, Sequences, FiniteSets, TLC

VARIABLES
    wallet,          \* Exchange.wallet (and the Wallet under test): [total, free]
    w_last,          \* the last Wallet call and its result
    ord_in,          \* the per-position orders handed to Exchange::order
    ord_out,         \* what Exchange::order did with them
    pc,              \* position of the run loop
    api,             \* the adapter the Exchange runs on
    on_error,        \* Settings.on_error
    current_time,    \* Exchange.current_time
    now,             \* the wall clock, Utc::now()
    real_time,       \* Exchange.real_time
    candles,         \* Exchange.candles: watched symbol -> queue
    open_positions,  \* Exchange.open_positions
    result,          \* what run() returned
    err,             \* the error run() is handling
    hist,            \* what the current tick did so far
    markets,         \* Exchange.markets: symbol -> MarketInfo
    venue,           \* the times at which the venue has a candle
    ff_cache,        \* ForwardFill.cache: the last seen candle
    store,           \* Store: the table of candles
    call,            \* the last get_candles call and what it returned
    calc,            \* the last Bundle / fit computation and its result
    chan,            \* Monitor: the records queued in the unbounded channel
    consumer,        \* Monitor: the state of the spawned consumer task
    logged,          \* Monitor: the records the consumer has received
    placing,         \* Monitor: the place_order calls of the tick
    levels,          \* Levels: triggers, timeout_until, positions
    quit,            \* Exchange.quit
    lv_log           \* what Levels observed and did, tick by tick

walletVars == <<wallet, w_last>>
orderVars == <<ord_in, ord_out>>
marketVars == <<markets>>
candleVars == <<venue, ff_cache, store, call>>
monitorVars == <<chan, consumer, logged, placing>>
levelsVars == <<levels, quit, lv_log>>
layerVars ==
    <<calc, chan, consumer, logged, placing, levels, quit, lv_log>>
loopVars == <<pc, api, on_error, current_time, now, real_time, candles,
              open_positions, result, err, hist>>
vars == <<wallet, w_last, ord_in, ord_out, pc, api, on_error, current_time,
          now, real_time, candles, open_positions, result, err, hist,
          markets, venue, ff_cache, store, call, calc, chan, consumer, logged,
          placing, levels, quit, lv_log>>

---------------------------------------------------------------------------
(* Bounds of the model. *)

\* Largest quantity of one Wallet call.
MaxQty == 2
\* Largest total the Wallet under test may hold.
MaxBalance == 3

---------------------------------------------------------------------------
(* Assets and symbols. *)

Assets == {"USD", "BTC"}
Symbols == {"BTC", "ETH"}
QuoteAsset == "USD"

Abs(x) == IF x < 0 THEN -x ELSE x
Signum(x) == IF x > 0 THEN 1 ELSE IF x < 0 THEN -1 ELSE 0

\* A HashMap<K, Decimal> is a function on the keys it holds.
EmptyMap == <<>>
\* map.get(k).cloned().unwrap_or_default()
Get(m, k) == IF k \in DOMAIN m THEN m[k] ELSE 0
\* map.entry(k).or_default(): the key is inserted with 0 when it is missing.
Entry(m, k) == IF k \in DOMAIN m THEN m ELSE m @@ (k :> 0)

RECURSIVE SumOver(_, _)
SumOver(S, f) ==
    IF S = {} THEN 0
    ELSE LET x == CHOOSE y \in S : TRUE IN f[x] + SumOver(S \ {x}, f)

---------------------------------------------------------------------------
(* Wallet (src/src/wallet.rs). *)

NewWallet == [total |-> EmptyMap, free |-> EmptyMap]

IsFresh(w) == DOMAIN w.total = {}

Total(w, a) == Get(w.total, a)
Available(w, a) == Get(w.free, a)
Reserved(w, a) == Total(w, a) - Available(w, a)

\* Every call returns the wallet it leaves behind and its result.
Deposit(w, qty, a) ==
    LET t == Entry(w.total, a)
        f == Entry(w.free, a)
    IN [w |-> [total |-> [t EXCEPT ![a] = @ + qty],
               free |-> [f EXCEPT ![a] = @ + qty]],
        res |-> "Ok"]

Reserve(w, qty, a) ==
    LET f == Entry(w.free, a)
    IN IF qty > f[a]
       THEN [w |-> [w EXCEPT !.free = f], res |-> "NotEnoughTotal"]
       ELSE [w |-> [w EXCEPT !.free = [f EXCEPT ![a] = @ - qty]], res |-> "Ok"]

Free(w, qty, a) ==
    LET f == Entry(w.free, a)
        t == Entry(w.total, a)
    IN IF qty > t[a] - f[a]
       THEN [w |-> [total |-> t, free |-> f], res |-> "NotEnoughReserved"]
       ELSE [w |-> [total |-> t, free |-> [f EXCEPT ![a] = @ + qty]],
             res |-> "Ok"]

FreeAll(w, a) ==
    LET f == Entry(w.free, a)
        t == Entry(w.total, a)
    IN [w |-> [total |-> t, free |-> [f EXCEPT ![a] = @ + (t[a] - f[a])]],
        res |-> "Ok"]

WithdrawUnchecked(w, qty, a) ==
    LET t == Entry(w.total, a)
        f == Entry(w.free, a)
    IN [w |-> [total |-> [t EXCEPT ![a] = @ - qty], free |-> f], res |-> "Ok"]

Withdraw(w, qty, a) ==
    LET t == Entry(w.total, a)
        f == Entry(w.free, a)
    IN IF qty > t[a] - f[a]
       THEN [w |-> [total |-> t, free |-> f], res |-> "NotEnoughReserved"]
       ELSE [w |-> [total |-> [t EXCEPT ![a] = @ - qty], free |-> f],
             res |-> "Ok"]

---------------------------------------------------------------------------
(* Bundle and Valuation (src/src/exchange/bundle.rs, valuation.rs): maps   *)
(* from Symbol to a Decimal.                                               *)

BundleAdd(a, b) ==
    [s \in DOMAIN a \cup DOMAIN b |-> Get(a, s) + Get(b, s)]

BundleSub(a, b) ==
    [s \in DOMAIN a \cup DOMAIN b |-> Get(a, s) - Get(b, s)]

\* &Bundle * &Bundle: the entries of the left operand, each entry named by
\* the right operand multiplied by it (a missing one inserted as 0 first).
BundleMul(a, b) ==
    [s \in DOMAIN a \cup DOMAIN b |->
        IF s \in DOMAIN b THEN Get(a, s) * b[s] ELSE a[s]]

BundleAbs(a) == [s \in DOMAIN a |-> Abs(a[s])]

BundleNeg(a) == [s \in DOMAIN a |-> -a[s]]

\* &Bundle * &Valuation: the sum runs over the symbols of the valuation.
BundleValue(b, v) == SumOver(DOMAIN v, [s \in DOMAIN v |-> Get(b, s) * v[s]])

---------------------------------------------------------------------------
(* ValuedBundle (src/src/exchange/valued_bundle.rs). *)

\* Option::None of a time and of a candle.
NoTime == -1
NoCandle == -1

DefaultValuedBundle ==
    [bundle |-> EmptyMap, valuation |-> EmptyMap, time |-> NoTime]

\* &ValuedBundle + &ValuedBundle asserts equal valuations and equal times.
AddPanics(a, b) == a.valuation # b.valuation \/ a.time # b.time

ValuedBundleAdd(a, b) ==
    [bundle |-> BundleAdd(a.bundle, b.bundle),
     valuation |-> a.valuation,
     time |-> a.time]

\* From<ValuedBundle> for Vec<Order>: one market order per symbol with a
\* non-zero quantity.  The Vec is in the map's iteration order, which is
\* arbitrary: the orders are kept as a set.
OrderOf(vb, s) ==
    [order_id |-> <<"uuid", s>>,
     market |-> s,
     side |-> IF vb.bundle[s] > 0 THEN "Buy" ELSE "Sell",
     size |-> Abs(vb.bundle[s]),
     order_type |-> "Market",
     reduce_only |-> FALSE,
     time |-> vb.time,
     current_price |-> Get(vb.valuation, s)]

OrderedSymbols(vb) == {s \in DOMAIN vb.bundle : vb.bundle[s] # 0}

IntoOrders(vb) == {OrderOf(vb, s) : s \in OrderedSymbols(vb)}

\* .expect("Cannot order valued bundle without associated time")
IntoOrdersPanics(vb) == OrderedSymbols(vb) # {} /\ vb.time = NoTime

---------------------------------------------------------------------------
(* Position (src/src/exchange/position.rs). *)

DefaultPosition ==
    [deltas |-> <<>>,
     current |-> DefaultValuedBundle,
     next_size |-> EmptyMap]

\* *self.size(symbol) = qty / -qty
Long(p, s, qty) == [p EXCEPT !.next_size = [Entry(@, s) EXCEPT ![s] = qty]]
Short(p, s, qty) == [p EXCEPT !.next_size = [Entry(@, s) EXCEPT ![s] = -qty]]

Valuate(p, valuation, time) ==
    [p EXCEPT !.current.valuation = valuation, !.current.time = time]

ClosePosition(p) == [p EXCEPT !.next_size = [s \in DOMAIN @ |-> 0]]

PositionOrder(p) ==
    [bundle |-> BundleSub(p.next_size, p.current.bundle),
     valuation |-> p.current.valuation,
     time |-> p.current.time]

\* A resize that keeps the requested size.
ResizeKeepNext(p, order) ==
    [p EXCEPT !.current.bundle = BundleAdd(@, order.bundle),
              !.deltas = Append(@, order)]

Resize(p, order) ==
    LET b == BundleAdd(p.current.bundle, order.bundle)
    IN [p EXCEPT !.current.bundle = b,
                 !.next_size = b,
                 !.deltas = Append(@, order)]

\* The running sum of the first i deltas.
RECURSIVE DeltaSum(_, _)
DeltaSum(p, i) ==
    IF i = 0 THEN EmptyMap
    ELSE BundleAdd(DeltaSum(p, i - 1), p.deltas[i].bundle)

\* stepwise_added_delta_value, entry i.
AddedDeltaValue(p, i) ==
    LET sum_bundle == DeltaSum(p, i - 1)
        delta == p.deltas[i]
        diff == BundleSub(BundleAbs(BundleAdd(sum_bundle, delta.bundle)),
                          BundleAbs(sum_bundle))
    IN BundleValue(diff, delta.valuation)

\* The pnl of a step priced on the absolute size.
AddedPnlValueAbs(p, i) ==
    LET sum_bundle == BundleAbs(DeltaSum(p, i))
        curr == p.deltas[i]
        next == IF i < Len(p.deltas) THEN p.deltas[i + 1] ELSE p.current
    IN BundleValue(sum_bundle, next.valuation)
         - BundleValue(sum_bundle, curr.valuation)

\* stepwise_added_pnl_value, entry i: the next valuation is the one of the
\* next delta, and the position's current valuation after the last delta.
AddedPnlValue(p, i) ==
    LET sum_bundle == DeltaSum(p, i)
        curr == p.deltas[i]
        next == IF i < Len(p.deltas) THEN p.deltas[i + 1] ELSE p.current
    IN BundleValue(sum_bundle, next.valuation)
         - BundleValue(sum_bundle, curr.valuation)

Steps(p) == 1..Len(p.deltas)

Pnl(p) == SumOver(Steps(p), [i \in Steps(p) |-> AddedPnlValue(p, i)])

Value(p) ==
    SumOver(Steps(p), [i \in Steps(p) |-> AddedPnlValue(p, i)])
      + SumOver(Steps(p), [i \in Steps(p) |-> AddedDeltaValue(p, i)])

---------------------------------------------------------------------------
(* Decimal arithmetic that is not exact. *)

\* Decimal / Decimal: the quotient is rounded at its last digit.
DivRound(a, b) ==
    LET n == IF b < 0 THEN -a ELSE a
        d == Abs(b)
        q == (2 * Abs(n) + d) \div (2 * d)
    IN IF n < 0 THEN -q ELSE q

\* (n / d).round_dp(8) for d > 0: to the nearest quote unit, a tie to the
\* even one.
RoundHalfEven(n, d) ==
    LET q == n \div d
        r == n % d
    IN IF 2 * r > d THEN q + 1
       ELSE IF 2 * r < d THEN q
       ELSE IF q % 2 = 0 THEN q ELSE q + 1

\* Ratios are kept to four decimal places.
RelUnit == 100 * 100

\* Position::relative_pnl, in units of 1 / RelUnit.
RelativePnl(p) ==
    LET value_sum ==
            SumOver(Steps(p), [i \in Steps(p) |-> Abs(AddedDeltaValue(p, i))])
    IN IF value_sum = 0 THEN 0
       ELSE DivRound(Pnl(p) * RelUnit, value_sum)

---------------------------------------------------------------------------
(* The adapters' place_order (src/src/apis/simulate.rs, ftx.rs). *)

\* Ftx::order_fee: Decimal::new(7, 4).
FeeNum == 7
FeeDen == 10000

\* The fee taken off a buy and put on a sell.
SimulatePriceFlipped(o) ==
    IF o.side = "Buy"
    THEN RoundHalfEven(o.current_price * (FeeDen - FeeNum), FeeDen)
    ELSE RoundHalfEven(o.current_price * (FeeDen + FeeNum), FeeDen)

SimulatePrice(o) ==
    IF o.side = "Buy"
    THEN RoundHalfEven(o.current_price * (FeeDen + FeeNum), FeeDen)
    ELSE RoundHalfEven(o.current_price * (FeeDen - FeeNum), FeeDen)

\* Simulate::place_order: every order is filled completely.
SimulatePlaceOrder(o) ==
    [order_id |-> o.order_id,
     market |-> o.market, size |-> o.size, price |-> SimulatePrice(o),
     time |-> o.time, side |-> o.side]

\* Ftx::place_order: the venue fails the request, or fills any part of the
\* order (filled_size) at an average price of its own.
FtxPlaceOrder(o) ==
    {[market |-> o.market, err |-> "ApiError"]} \cup
    {[market |-> o.market, size |-> n, price |-> pr, time |-> o.time,
      side |-> o.side] :
        n \in 0..o.size, pr \in {o.current_price, SimulatePrice(o)}}

IsErr(r) == "err" \in DOMAIN r

PlaceOrder(a, o) ==
    IF a = "Simulate" THEN {SimulatePlaceOrder(o)} ELSE FtxPlaceOrder(o)

\* What join_all over the place_order futures can return: one result per
\* ordered symbol.
PlaceOrders(a, orders) ==
    LET syms == {o.market : o \in orders}
        ord(s) == CHOOSE o \in orders : o.market = s
        all == UNION {PlaceOrder(a, o) : o \in orders}
    IN {f \in [syms -> all] : \A s \in syms : f[s] \in PlaceOrder(a, ord(s))}

---------------------------------------------------------------------------
(* Exchange::order and Exchange::coalesce_orders                           *)
(* (src/src/exchange/mod.rs).                                              *)

RECURSIVE FoldOrders(_, _)
FoldOrders(orders, n) ==
    IF n = 1 THEN orders[1]
    ELSE ValuedBundleAdd(FoldOrders(orders, n - 1), orders[n])

\* A fold that starts from the default bundle and skips the first order.
CoalesceOrdersSkipFirst(orders) ==
    IF Len(orders) <= 1 THEN DefaultValuedBundle
    ELSE FoldOrders(Tail(orders), Len(orders) - 1)

CoalesceOrders(orders) ==
    IF orders = <<>> THEN DefaultValuedBundle
    ELSE FoldOrders(orders, Len(orders))

CoalescePanics(orders) ==
    \E i \in 2..Len(orders) : AddPanics(orders[1], orders[i])

ActualOrders(orders) == IntoOrders(CoalesceOrders(orders))

\* The under-fill of an order, with the sign of its side.
Missing(o, info) ==
    IF o.side = "Buy" THEN o.size - info.size ELSE -(o.size - info.size)

\* The sum without the filter on the sign.
SameSideOrderSizeSumAll(orders, s, missing) ==
    LET all == {i \in DOMAIN orders : s \in DOMAIN orders[i].bundle}
    IN SumOver(all, [i \in all |-> orders[i].bundle[s]])

SameSideOrderSizeSum(orders, s, missing) ==
    LET same == {i \in DOMAIN orders :
                    /\ s \in DOMAIN orders[i].bundle
                    /\ Signum(orders[i].bundle[s]) = Signum(missing)}
    IN SumOver(same, [i \in same |-> orders[i].bundle[s]])

\* One position's order after the results of the actual orders.
AdjustedOrder(orders, i, actual, infos) ==
    LET order == orders[i]
        hit == {o.market : o \in actual} \cap DOMAIN order.bundle
        ord(s) == CHOOSE o \in actual : o.market = s
        size(s) ==
            LET order_size == order.bundle[s]
                missing == Missing(ord(s), infos[s])
                sum == SameSideOrderSizeSum(orders, s, missing)
            IN IF Signum(order_size) = Signum(missing) /\ sum # 0
               THEN order_size - DivRound(missing * order_size, sum)
               ELSE order_size
    IN [bundle |-> [s \in DOMAIN order.bundle |->
                        IF s \in hit THEN size(s) ELSE order.bundle[s]],
        valuation |-> [s \in DOMAIN order.valuation \cup hit |->
                        IF s \in hit THEN infos[s].price
                        ELSE order.valuation[s]],
        time |-> order.time]

\* Exchange::order with the adapter's answers `infos`: the result (Ok, the
\* ApiError, or a panic of an assertion), the orders handed to place_order
\* and the adjusted per-position orders.
ExchangeOrder(orders, infos) ==
    LET actual == ActualOrders(orders)
    IN IF \E s \in DOMAIN infos : IsErr(infos[s])
       THEN [res |-> "ApiError", placed |-> actual, infos |-> infos,
             adjusted |-> <<>>]
       ELSE [res |-> "Ok", placed |-> actual, infos |-> infos,
             adjusted |-> [i \in DOMAIN orders |->
                              AdjustedOrder(orders, i, actual, infos)]]

OrderPanics(orders) ==
    CoalescePanics(orders) \/ IntoOrdersPanics(CoalesceOrders(orders))

---------------------------------------------------------------------------
(* The run loop of the Exchange (src/src/exchange/mod.rs): times are in    *)
(* clock units, a candle interval is Interval of them.                     *)

\* Ticks the loop is followed for.
MaxTicks == 2
\* settings.interval, in clock units.
Interval == 2
\* The sleep between two attempts to fetch missing candles, in clock units.
RetrySleep == 1
\* Most candles one get_candles call returns.
MaxFetch == 2
\* Most positions open at once.
MaxPositions == 2
\* Largest size the strategy asks for on a symbol.
MaxOpenSize == 2
\* The quote balance the wallet is seeded with, in quote units.
StartCapital == 15000

OnErrors == {"Return", "ExitAllPositionsAndReturn", "ExitAllPositionsAndResume"}

EndTime == MaxTicks * Interval

\* A clock far ahead of every candle: a backtest.
BacktestNow == EndTime + 2 * Interval

\* The venue's candle data: the close of the candle of a symbol at a time,
\* or no candle.
Close(s, t) ==
    LET k == (t \div Interval) % 3
    IN IF s = "ETH" THEN 5000
       ELSE IF k = 0 THEN 10000
       ELSE IF k = 1 THEN 5000
       ELSE NoCandle

\* Api::get_candles(key) returning n entries: the first at key.time, the
\* rest at the following times.
GetCandles(s, t, n) ==
    [i \in 1..n |-> [time |-> t + (i - 1) * Interval,
                     close |-> Close(s, t + (i - 1) * Interval)]]

\* How many entries a call can return: none for the time to come.
Fetchable(t, clock) ==
    {n \in 0..MaxFetch : n = 0 \/ t + (n - 1) * Interval <= clock}

Watch(c, s) == [x \in DOMAIN c \cup {s} |-> IF x = s THEN <<>> ELSE c[x]]

Unwatch(c, s) == [x \in DOMAIN c \ {s} |-> c[x]]

\* candles.is_empty() || candles.front().is_none()
CandlesMissing(c) == {s \in DOMAIN c : c[s] = <<>>}

\* A step that leaves the queues as they are.
StepCandlesKeep(c) == c

\* Exchange::step on the queues: pop_front of each.
StepCandles(c) ==
    [s \in DOMAIN c |-> IF c[s] = <<>> THEN <<>> ELSE Tail(c[s])]

\* A step that leaves the time as it is.
StepTimeStay(t) == t

\* Exchange::step on current_time.
StepTime(t) == t + Interval

\* The valuation Exchange::valuate builds: the close of every front candle.
CurrentValuation(c) ==
    LET priced == {s \in DOMAIN c :
                      c[s] # <<>> /\ Head(c[s]).close # NoCandle}
    IN [s \in priced |-> Head(c[s]).close]

ValuateAll(ps, c, t) ==
    [i \in DOMAIN ps |-> Valuate(ps[i], CurrentValuation(c), t)]

CloseAll(ps) == [i \in DOMAIN ps |-> ClosePosition(ps[i])]

\* MarketInfo of a symbol: sizes are counted in size increments.
MarketInfoOf(s) == [symbol |-> s, min_size |-> 1, size_increment |-> 1]

\* round_size: (size / increment) rounded to an integer by
\* RoundingStrategy::ToPositiveInfinity, times the increment.
RoundSize(info, size) ==
    IF info.size_increment = 0 THEN size
    ELSE -((-size) \div info.size_increment) * info.size_increment

\* A fit that also drops an order of exactly the minimum size.
FitWithAtMin(p, mk) ==
    LET order_bundle == BundleSub(p.next_size, p.current.bundle)
        cur(s) == Get(p.current.bundle, s)
        rounded(s) ==
            IF Abs(order_bundle[s]) <= mk[s].min_size THEN cur(s)
            ELSE cur(s) + RoundSize(mk[s], order_bundle[s])
    IN [p EXCEPT !.next_size =
            [s \in DOMAIN p.next_size \cup DOMAIN order_bundle |->
                IF s \in DOMAIN order_bundle THEN rounded(s) ELSE @[s]]]

\* Position::fit on the markets mk: the ordered sizes rounded by the size
\* increment, and an order below the minimum size dropped.
FitWith(p, mk) ==
    LET order_bundle == BundleSub(p.next_size, p.current.bundle)
        cur(s) == Get(p.current.bundle, s)
        rounded(s) ==
            IF Abs(order_bundle[s]) < mk[s].min_size THEN cur(s)
            ELSE cur(s) + RoundSize(mk[s], order_bundle[s])
    IN [p EXCEPT !.next_size =
            [s \in DOMAIN p.next_size \cup DOMAIN order_bundle |->
                IF s \in DOMAIN order_bundle THEN rounded(s) ELSE @[s]]]

\* The rounding loss Position::fit returns: |rounded_size - next_size| at
\* the position's current valuation.
FitLoss(p, mk) ==
    BundleValue(BundleAbs(BundleSub(FitWith(p, mk).next_size, p.next_size)),
                p.current.valuation)

Fit(p) == FitWith(p, [s \in Symbols |-> MarketInfoOf(s)])

\* Exchange::open
Open(ps, s, q) ==
    Append(ps, Fit(IF q > 0 THEN Long(DefaultPosition, s, q)
                   ELSE Short(DefaultPosition, s, -q)))

\* Exchange::total on a wallet and positions.
EquityOf(w, ps) ==
    Total(w, QuoteAsset)
      + SumOver(DOMAIN ps, [i \in DOMAIN ps |-> Value(ps[i])])

\* Markets::new and Markets::is_fresh
NewMarkets == EmptyMap
IsFreshMarkets(mk) == DOMAIN mk = {}

\* What the venue answers to GetMarkets at a time: the traded volume moves.
VenueMarkets(t) ==
    [s \in Symbols |-> MarketInfoOf(s) @@ [daily_quote_volume |-> t]]

\* Api::update_markets: Simulate asks the venue only for fresh markets; Ftx
\* overwrites them with the venue's.
UpdateMarkets(a, mk, t) ==
    IF a = "Simulate" /\ ~IsFreshMarkets(mk) THEN mk ELSE VenueMarkets(t)

\* The wallet a Simulate adapter is constructed with.
StartWallet == Deposit(NewWallet, StartCapital, QuoteAsset).w

\* An update_wallet that hands out the start wallet every time.
UpdateWalletReset(a, w) == {StartWallet}

\* Api::update_wallet: Simulate seeds a fresh wallet and leaves any other
\* one; Ftx overwrites the wallet with the balances of the venue.
UpdateWallet(a, w) ==
    IF a = "Simulate" THEN {IF IsFresh(w) THEN StartWallet ELSE w}
    ELSE {StartWallet}

\* What the fills of a tick cost above (buys) or below (sells) the current
\* price: the fees paid.
FeesPaid(placed, infos) ==
    SumOver(placed,
            [o \in placed |->
                infos[o.market].size
                  * Abs(infos[o.market].price - o.current_price)])

NotClosed(p) == Value(p) # 0

\* The fills the adapter confirmed in one execute(), signed: Buy +size,
\* Sell -size; a failed place_order confirms nothing.
Filled(infos) ==
    [s \in DOMAIN infos |->
        IF IsErr(infos[s]) THEN 0
        ELSE IF infos[s].side = "Buy" THEN infos[s].size
        ELSE -infos[s].size]

\* Exchange::execute after place_order answered `infos`.
ExecuteWith(ps, w, orders, infos) ==
    LET r == ExchangeOrder(orders, infos)
        resized == [i \in DOMAIN ps |-> Resize(ps[i], r.adjusted[i])]
        value_diff_sum ==
            SumOver(DOMAIN ps,
                    [i \in DOMAIN ps |-> Value(resized[i]) - Value(ps[i])])
        reserved == Reserve(w, value_diff_sum, QuoteAsset)
        withdrawn == Withdraw(reserved.w, value_diff_sum, QuoteAsset)
    IN IF r.res # "Ok"
       THEN [res |-> "Err", why |-> "ApiError", positions |-> ps,
             wallet |-> w, fee |-> 0, filled |-> Filled(infos)]
       ELSE IF value_diff_sum > 0 /\ reserved.res # "Ok"
       THEN [res |-> "Panic", why |-> reserved.res, positions |-> resized,
             wallet |-> reserved.w, fee |-> FeesPaid(r.placed, infos),
             filled |-> Filled(infos)]
       ELSE IF value_diff_sum > 0 /\ withdrawn.res # "Ok"
       THEN [res |-> "Panic", why |-> withdrawn.res, positions |-> resized,
             wallet |-> withdrawn.w, fee |-> FeesPaid(r.placed, infos),
             filled |-> Filled(infos)]
       ELSE [res |-> "Ok", why |-> "none",
             positions |-> SelectSeq(resized, NotClosed),
             wallet |-> IF value_diff_sum > 0 THEN withdrawn.w
                        ELSE IF value_diff_sum < 0
                        THEN Deposit(w, -value_diff_sum, QuoteAsset).w
                        ELSE w,
             fee |-> FeesPaid(r.placed, infos),
             filled |-> Filled(infos)]

\* Exchange::execute: every way it can end on these positions and wallet.
Execute(a, ps, w) ==
    LET orders == [i \in DOMAIN ps |-> PositionOrder(ps[i])]
    IN IF \E i \in DOMAIN ps : orders[i].time = NoTime
       THEN {[res |-> "Panic", why |-> "order.time.is_some()",
              positions |-> ps, wallet |-> w, fee |-> 0,
              filled |-> EmptyMap]}
       ELSE IF OrderPanics(orders)
       THEN {[res |-> "Panic", why |-> "assert_eq", positions |-> ps,
              wallet |-> w, fee |-> 0, filled |-> EmptyMap]}
       ELSE {ExecuteWith(ps, w, orders, infos) :
                infos \in PlaceOrders(a, ActualOrders(orders))}

---------------------------------------------------------------------------
(* What the variables of the other specifications hold while one runs. *)

\* What is remembered of the run: the phases of the tick under way, the error
\* that failed it, how its last execute ended and the fees that one paid.
NoHist ==
    [phases |-> <<>>, failed |-> "none", exec |-> "none", fee |-> 0,
     filled |-> EmptyMap]

NoCall == [op |-> "none", qty |-> 0, asset |-> QuoteAsset, res |-> "Ok"]
WalletIdle == wallet = NewWallet /\ w_last = NoCall
OrderIdle == ord_in = <<>> /\ ord_out = [state |-> "idle"]
NoCandleCall == [layer |-> "none"]
CandleIdle ==
    venue = {} /\ ff_cache = EmptyMap /\ store = EmptyMap
      /\ call = NoCandleCall
NoCalc == [op |-> "none"]
MonitorIdle ==
    chan = <<>> /\ consumer = "none" /\ logged = <<>> /\ placing = EmptyMap
NoLevels == [triggers |-> <<>>]
LevelsIdle == levels = NoLevels /\ quit = FALSE /\ lv_log = <<>>
LayerIdle == calc = NoCalc /\ MonitorIdle /\ LevelsIdle
LoopIdle ==
    /\ pc = "off"
    /\ api = "Simulate"
    /\ on_error = "Return"
    /\ current_time = 0
    /\ now = 0
    /\ real_time = FALSE
    /\ candles = EmptyMap
    /\ markets = NewMarkets
    /\ open_positions = <<>>
    /\ result = "none"
    /\ err = "none"
    /\ hist = NoHist

---------------------------------------------------------------------------
(* The Wallet under any sequence of calls: SpecWallet. *)

InitWallet ==
    WalletIdle /\ OrderIdle /\ LoopIdle /\ CandleIdle /\ LayerIdle

Call(op, qty, a, r) ==
    /\ wallet' = r.w
    /\ w_last' = [op |-> op, qty |-> qty, asset |-> a, res |-> r.res]
    /\ UNCHANGED <<orderVars, layerVars, marketVars, candleVars, loopVars>>

WDeposit ==
    \E qty \in 0..MaxQty, a \in Assets :
        /\ Total(wallet, a) + qty <= MaxBalance
        /\ Call("deposit", qty, a, Deposit(wallet, qty, a))

WReserve ==
    \E qty \in 0..MaxQty, a \in Assets :
        Call("reserve", qty, a, Reserve(wallet, qty, a))

WFree ==
    \E qty \in 0..MaxQty, a \in Assets :
        Call("free", qty, a, Free(wallet, qty, a))

WFreeAll ==
    \E a \in Assets : Call("free_all", 0, a, FreeAll(wallet, a))

WWithdraw ==
    \E qty \in 0..MaxQty, a \in Assets :
        Call("withdraw", qty, a, Withdraw(wallet, qty, a))

NextWallet == WDeposit \/ WReserve \/ WFree \/ WFreeAll \/ WWithdraw

SpecWallet == InitWallet /\ [][NextWallet]_vars

\* C4: for every asset, after any sequence of deposit, reserve, free,
\* free_all and withdraw calls with non-negative quantities on an initially
\* empty wallet, whether each call succeeds or fails, the reserved amount
\* total - free is >= 0.
C4_ReservedNonNegative == \A a \in Assets : Reserved(wallet, a) >= 0

\* A call has just failed while funds are reserved.
C4_Witness ==
    /\ w_last.res # "Ok"
    /\ \E a \in Assets : Reserved(wallet, a) > 0 /\ Available(wallet, a) > 0

\* C5: withdraw(q, asset) only releases funds that were reserved before: if
\* q > total - free it returns NotEnoughReserved and leaves total and free of
\* every asset, and the wallet's freshness (is_fresh), unchanged; withdraw(q)
\* directly after deposit(q) on a wallet with nothing reserved fails; after a
\* successful reserve(q) the withdraw(q) succeeds, lowers total by exactly q
\* and leaves free unchanged.
C5_WithdrawStep ==
    LET q == w_last'.qty
        a == w_last'.asset
        ok == w_last'.res = "Ok"
    IN w_last'.op = "withdraw" =>
        /\ q > Reserved(wallet, a) =>
              /\ w_last'.res = "NotEnoughReserved"
              /\ \A b \in Assets : /\ Total(wallet', b) = Total(wallet, b)
                                   /\ Available(wallet', b) = Available(wallet, b)
              /\ IsFresh(wallet') = IsFresh(wallet)
        /\ ( /\ w_last.op = "deposit" /\ w_last.qty = q /\ w_last.asset = a
             /\ q > 0 /\ Reserved(wallet, a) = 0 ) => ~ok
        /\ ( /\ w_last.op = "reserve" /\ w_last.qty = q /\ w_last.asset = a
             /\ w_last.res = "Ok" ) =>
              /\ ok
              /\ Total(wallet', a) = Total(wallet, a) - q
              /\ Available(wallet', a) = Available(wallet, a)

C5_WithdrawOnlyReserved == [][C5_WithdrawStep]_vars

---------------------------------------------------------------------------
(* Exchange::order on any per-position orders and any fills: SpecOrder. *)

\* Most per-position orders handed to one Exchange::order.
MaxOrders == 3
\* Largest size of a per-position order on a symbol.
MaxSize == 2

Adapters == {"Simulate", "Ftx"}

OrderBundles ==
    {EmptyMap}
      \cup {("BTC" :> q) : q \in -MaxSize..MaxSize}
      \cup {("BTC" :> q) @@ ("ETH" :> -q) : q \in {-1, 1}}

\* All positions carry the valuation of the tick.
OrderValuations == {("BTC" :> 10000) @@ ("ETH" :> 5000)}

OrderInputs ==
    UNION {{[i \in 1..n |-> [bundle |-> b[i], valuation |-> v, time |-> 0]] :
                b \in [1..n -> OrderBundles], v \in OrderValuations} :
            n \in 0..MaxOrders}

InitOrder ==
    /\ WalletIdle
    /\ LayerIdle
    /\ LoopIdle
    /\ CandleIdle
    /\ ord_in \in OrderInputs
    /\ ord_out = [state |-> "idle"]

OrderStep ==
    /\ ord_out.state = "idle"
    /\ ~OrderPanics(ord_in)
    /\ \E a \in Adapters :
         \E infos \in PlaceOrders(a, ActualOrders(ord_in)) :
            ord_out' = [state |-> "done", api |-> a]
                         @@ ExchangeOrder(ord_in, infos)
    /\ UNCHANGED <<ord_in, layerVars, walletVars, marketVars, candleVars,
                   loopVars>>

NextOrder == OrderStep

SpecOrder == InitOrder /\ [][NextOrder]_vars

\* The net delta of a symbol over the per-position orders.
NetDelta(orders, s) ==
    SumOver(DOMAIN orders, [i \in DOMAIN orders |-> Get(orders[i].bundle, s)])

PlacedOn(s) == {o \in ord_out.placed : o.market = s}

\* C9: the orders submitted to place_order are exactly one market order per
\* symbol whose net delta over the positions is non-zero, with side Buy iff
\* that net delta is positive and size equal to its absolute value; a symbol
\* whose per-position deltas cancel to zero gets no order at all.
C9_OneOrderPerNetDelta ==
    ord_out.state = "done" =>
        \A s \in Symbols :
            LET net == NetDelta(ord_in, s)
            IN /\ net = 0 => PlacedOn(s) = {}
               /\ net # 0 =>
                    /\ Cardinality(PlacedOn(s)) = 1
                    /\ \A o \in PlacedOn(s) :
                          /\ o.order_type = "Market"
                          /\ (o.side = "Buy") <=> (net > 0)
                          /\ o.side \in {"Buy", "Sell"}
                          /\ o.size = Abs(net)
               /\ DOMAIN ord_out.infos = {o.market : o \in ord_out.placed}

\* Three positions whose deltas on BTC cancel while ETH is ordered.
C9_Witness ==
    /\ ord_out.state = "done"
    /\ Len(ord_in) = 3
    /\ \A i \in 1..3 : Get(ord_in[i].bundle, "BTC") # 0
    /\ NetDelta(ord_in, "BTC") = 0
    /\ PlacedOn("BTC") = {}
    /\ PlacedOn("ETH") # {}

SignedFill(s) ==
    IF ord_out.infos[s].side = "Buy"
    THEN ord_out.infos[s].size ELSE -ord_out.infos[s].size

MissingOn(s) ==
    LET o == CHOOSE x \in ord_out.placed : x.market = s
    IN Missing(o, ord_out.infos[s])

AdjustedSum(s) ==
    SumOver(DOMAIN ord_in,
            [i \in DOMAIN ord_in |-> Get(ord_out.adjusted[i].bundle, s)])

Holders(s) == {i \in DOMAIN ord_in : s \in DOMAIN ord_in[i].bundle}

SameSide(s) ==
    {i \in Holders(s) : Signum(ord_in[i].bundle[s]) = Signum(MissingOn(s))}

\* The parts of C10 that do not depend on the quotients being exact.
C10_Frame(s) ==
    /\ \A i \in DOMAIN ord_in :
          DOMAIN ord_out.adjusted[i].bundle = DOMAIN ord_in[i].bundle
    /\ PlacedOn(s) = {} =>
          \A i \in Holders(s) :
              ord_out.adjusted[i].bundle[s] = ord_in[i].bundle[s]
    /\ PlacedOn(s) # {} =>
          /\ \A i \in Holders(s) \ SameSide(s) :
                ord_out.adjusted[i].bundle[s] = ord_in[i].bundle[s]
          /\ MissingOn(s) = 0 =>
                \A i \in Holders(s) :
                    ord_out.adjusted[i].bundle[s] = ord_in[i].bundle[s]

SameSum(s) == SumOver(SameSide(s), [i \in SameSide(s) |-> ord_in[i].bundle[s]])

\* adjusted = order_size - missing * order_size / sum, as an exact equation.
ExactlyProportional(s, i) ==
    LET sum == SameSum(s)
        size == ord_in[i].bundle[s]
    IN ord_out.adjusted[i].bundle[s] * sum = size * sum - MissingOn(s) * size

\* The same up to the rounding of the quotient: at most half a size unit.
ProportionalRounded(s, i) ==
    LET sum == SameSum(s)
        size == ord_in[i].bundle[s]
    IN 2 * Abs(ord_out.adjusted[i].bundle[s] * sum
                 - (size * sum - MissingOn(s) * size)) <= Abs(sum)

QuotientsExact(s) ==
    LET sum == SameSum(s)
    IN \A i \in SameSide(s) : (MissingOn(s) * ord_in[i].bundle[s]) % Abs(sum) = 0

\* C10 as claimed: the per-position deltas returned by Exchange::order sum
\* exactly to the signed filled size of the coalesced order; an under-fill
\* reduces only the deltas with the sign of the shortfall, each by
\* missing * order_size / (sum of same-side order sizes).
C10_Original ==
    (ord_out.state = "done" /\ ord_out.res = "Ok") =>
        \A s \in Symbols :
            /\ C10_Frame(s)
            /\ PlacedOn(s) # {} =>
                  /\ AdjustedSum(s) = SignedFill(s)
                  /\ MissingOn(s) # 0 =>
                        \A i \in SameSide(s) : ExactlyProportional(s, i)

\* C10 as amended: the deltas sum to the signed filled size, and each
\* same-side delta is reduced by exactly missing * order_size / sum, whenever
\* these quotients are exact Decimals; otherwise each same-side delta is the
\* proportional value rounded at the last digit.  Deltas of the opposite sign
\* are applied in full, and a complete fill or a cancelled symbol leaves every
\* delta unchanged.
C10_Amended ==
    (ord_out.state = "done" /\ ord_out.res = "Ok") =>
        \A s \in Symbols :
            /\ C10_Frame(s)
            /\ (PlacedOn(s) # {} /\ MissingOn(s) # 0) =>
                  /\ \A i \in SameSide(s) : ProportionalRounded(s, i)
                  /\ QuotientsExact(s) =>
                        /\ AdjustedSum(s) = SignedFill(s)
                        /\ \A i \in SameSide(s) : ExactlyProportional(s, i)
            /\ (PlacedOn(s) # {} /\ MissingOn(s) = 0) =>
                  AdjustedSum(s) = SignedFill(s)

\* An under-filled buy with exact quotients, shared by two buying positions
\* and one selling position, in which a buyer's delta was reduced.
C10_Witness ==
    /\ ord_out.state = "done" /\ ord_out.res = "Ok"
    /\ PlacedOn("BTC") # {}
    /\ MissingOn("BTC") > 0
    /\ QuotientsExact("BTC")
    /\ Cardinality(SameSide("BTC")) = 2
    /\ Holders("BTC") \ SameSide("BTC") # {}
    /\ \E i \in SameSide("BTC") :
          ord_out.adjusted[i].bundle["BTC"] # ord_in[i].bundle["BTC"]

---------------------------------------------------------------------------
(* Exchange::run with any strategy and either adapter: Spec. *)

Init ==
    /\ WalletIdle
    /\ LayerIdle
    /\ OrderIdle
    /\ CandleIdle
    /\ pc = "start"
    /\ api \in Adapters
    /\ on_error = "Return"
    /\ current_time = 0
    /\ now \in {0, BacktestNow}
    /\ real_time = FALSE
    /\ candles = EmptyMap
    /\ markets = NewMarkets
    /\ open_positions = <<>>
    /\ result = "none"
    /\ err = "none"
    /\ hist = NoHist

Phase(name) == [hist EXCEPT !.phases = Append(@, name)]

\* run_internal returns Err(e): run matches on it.
Fail(e, h) ==
    /\ pc' = "handler"
    /\ err' = e
    /\ hist' = [h EXCEPT !.failed = e]

Return(r, e) ==
    /\ pc' = "done"
    /\ result' = r
    /\ err' = e

\* run up to the loop: update_markets, update_wallet, strategy.init, which
\* watches markets and chooses the settings.
RunStart ==
    /\ pc = "start"
    /\ \E ok \in BOOLEAN, oe \in OnErrors, watched \in SUBSET Symbols,
          w \in UpdateWallet(api, wallet) :
          /\ wallet' = w
          /\ markets' = UpdateMarkets(api, markets, current_time)
          /\ IF ok
             THEN /\ on_error' = oe
                  /\ candles' = [s \in watched |-> <<>>]
                  /\ pc' = "loop"
                  /\ UNCHANGED <<result, err>>
             ELSE /\ Return("Err", "init")
                  /\ UNCHANGED <<on_error, candles>>
    /\ UNCHANGED <<w_last, orderVars, layerVars, candleVars, api,
                   current_time, now, real_time, open_positions, hist>>

WaitDuration == current_time + Interval - now

\* Whether update_markets and update_wallet can fail: those of Simulate ask
\* the venue only while their data is fresh.
UpdateOk(a) == IF a = "Simulate" THEN {TRUE} ELSE BOOLEAN

\* The else branch of the loop: sleep until the next candle is due.
Sleep ==
    /\ pc = "loop"
    /\ current_time < EndTime
    /\ WaitDuration > 0
    /\ real_time' = TRUE
    /\ now' = now + WaitDuration
    /\ UNCHANGED <<walletVars, orderVars, layerVars, marketVars, candleVars,
                   pc, api, on_error, current_time, candles, open_positions,
                   result, err, hist>>

\* Exchange::update up to the candles: markets and wallet.  When one of the
\* joined futures fails the wallet may or may not have been updated yet.
Update ==
    /\ pc = "loop"
    /\ current_time < EndTime
    /\ WaitDuration <= 0
    /\ \E ok \in UpdateOk(api), w \in UpdateWallet(api, wallet) :
          LET h == [NoHist EXCEPT !.phases = <<"update">>]
              mk == UpdateMarkets(api, markets, current_time)
          IN IF ok
             THEN /\ wallet' = w
                  /\ markets' = mk
                  /\ pc' = "fetch"
                  /\ hist' = h
                  /\ UNCHANGED err
             ELSE /\ Fail("update", h)
                  /\ wallet' \in {wallet, w}
                  /\ markets' \in {markets, mk}
    /\ UNCHANGED <<w_last, orderVars, layerVars, candleVars, api, on_error,
                   current_time, now, real_time, candles, open_positions,
                   result>>

\* One round of the loop over candles_missing: fetch, append, and break,
\* sleep and retry, or go on.
Fetch ==
    /\ pc = "fetch"
    /\ LET missing == CandlesMissing(candles)
       IN \E n \in [missing -> Fetchable(current_time, now)],
             failing \in SUBSET missing :
            LET appended ==
                    [s \in DOMAIN candles |->
                        IF s \in missing \ failing
                        THEN GetCandles(s, current_time, n[s])
                        ELSE candles[s]]
                still == CandlesMissing(appended)
            IN /\ candles' = appended
               /\ IF failing # {}
                  THEN /\ Fail("update", hist)
                       /\ UNCHANGED now
                  ELSE IF missing = {} \/ still = {}
                          \/ WaitDuration <= -Interval
                  THEN /\ pc' = "valuate"
                       /\ UNCHANGED <<now, err, hist>>
                  ELSE /\ now' = now + RetrySleep
                       /\ UNCHANGED <<pc, err, hist>>
    /\ UNCHANGED <<walletVars, orderVars, layerVars, marketVars, candleVars,
                   api, on_error, current_time, real_time, open_positions,
                   result>>

\* Exchange::valuate before strategy.eval.
ValuateStep ==
    /\ pc = "valuate"
    /\ open_positions' = ValuateAll(open_positions, candles, current_time)
    /\ pc' = "eval"
    /\ hist' = Phase("valuate")
    /\ UNCHANGED <<walletVars, orderVars, layerVars, marketVars, candleVars,
                   api, on_error, current_time, now, real_time, candles,
                   result, err>>

\* What a strategy can do to the exchange in one eval.
EvalOps ==
    {[op |-> "none"], [op |-> "close_all"]}
      \cup {[op |-> "watch", s |-> s] : s \in Symbols}
      \cup {[op |-> "unwatch", s |-> s] : s \in Symbols}
      \cup {[op |-> "close", i |-> i] : i \in DOMAIN open_positions}
      \cup {[op |-> "open", s |-> s, q |-> q] :
              s \in {x \in Symbols : Len(open_positions) < MaxPositions},
              q \in {-1, 1, MaxOpenSize}}

EvalCandles(o) ==
    IF o.op = "watch" THEN Watch(candles, o.s)
    ELSE IF o.op = "unwatch" THEN Unwatch(candles, o.s)
    ELSE candles

EvalPositions(o) ==
    IF o.op = "open" THEN Open(open_positions, o.s, o.q)
    ELSE IF o.op = "close"
    THEN [open_positions EXCEPT ![o.i] = ClosePosition(@)]
    ELSE IF o.op = "close_all" THEN CloseAll(open_positions)
    ELSE open_positions

\* strategy.eval(self)?
Eval ==
    /\ pc = "eval"
    /\ \E o \in EvalOps, ok \in BOOLEAN :
          /\ candles' = EvalCandles(o)
          /\ open_positions' = EvalPositions(o)
          /\ IF ok
             THEN /\ pc' = "valuate2"
                  /\ hist' = Phase("eval")
                  /\ UNCHANGED err
             ELSE Fail("eval", Phase("eval"))
    /\ UNCHANGED <<walletVars, orderVars, layerVars, marketVars, candleVars,
                   api, on_error, current_time, now, real_time, result>>

\* Exchange::valuate after strategy.eval.
Valuate2 ==
    /\ pc = "valuate2"
    /\ open_positions' = ValuateAll(open_positions, candles, current_time)
    /\ pc' = "execute"
    /\ hist' = Phase("valuate")
    /\ UNCHANGED <<walletVars, orderVars, layerVars, marketVars, candleVars,
                   api, on_error, current_time, now, real_time, candles,
                   result, err>>

\* self.execute().await? of the tick.
ExecuteStep ==
    /\ pc = "execute"
    /\ \E x \in Execute(api, open_positions, wallet) :
          LET h == [Phase("execute") EXCEPT !.exec = x.res, !.fee = x.fee,
                                            !.filled = x.filled]
          IN /\ wallet' = x.wallet
             /\ open_positions' = x.positions
             /\ IF x.res = "Ok"
                THEN /\ pc' = "status"
                     /\ hist' = h
                     /\ UNCHANGED <<result, err>>
                ELSE IF x.res = "Err"
                THEN /\ Fail("execute", h)
                     /\ UNCHANGED result
                ELSE /\ Return("Panic", x.why)
                     /\ hist' = h
    /\ UNCHANGED <<w_last, orderVars, layerVars, marketVars, candleVars, api,
                   on_error, current_time, now, real_time, candles>>

\* self.api.status(self.current_time, self.total())
Status ==
    /\ pc = "status"
    /\ pc' = "step"
    /\ hist' = Phase("status")
    /\ UNCHANGED <<walletVars, orderVars, layerVars, marketVars, candleVars,
                   api, on_error, current_time, now, real_time, candles,
                   open_positions, result, err>>

\* self.step(settings) of the tick.
Step ==
    /\ pc = "step"
    /\ current_time' = StepTime(current_time)
    /\ candles' = StepCandles(candles)
    /\ pc' = "loop"
    /\ hist' = Phase("step")
    /\ UNCHANGED <<walletVars, orderVars, layerVars, marketVars, candleVars,
                   api, on_error, now, real_time, open_positions, result,
                   err>>

\* OnError::Return
HandlerReturn ==
    /\ pc = "handler"
    /\ on_error = "Return"
    /\ Return("Err", err)
    /\ UNCHANGED <<walletVars, orderVars, layerVars, marketVars, candleVars,
                   api, on_error, current_time, now, real_time, candles,
                   open_positions, hist>>

\* self.close_all() of the two other settings.
HandlerCloseAll ==
    /\ pc = "handler"
    /\ on_error # "Return"
    /\ open_positions' = CloseAll(open_positions)
    /\ pc' = "h_execute"
    /\ hist' = Phase("close_all")
    /\ UNCHANGED <<walletVars, orderVars, layerVars, marketVars, candleVars,
                   api, on_error, current_time, now, real_time, candles,
                   result, err>>

\* self.execute().await? of the handler, and the return of
\* ExitAllPositionsAndReturn.
HandlerExecute ==
    /\ pc = "h_execute"
    /\ \E x \in Execute(api, open_positions, wallet) :
          /\ wallet' = x.wallet
          /\ open_positions' = x.positions
          /\ hist' = [Phase("h_execute") EXCEPT !.exec = x.res, !.fee = x.fee,
                                              !.filled = x.filled]
          /\ IF x.res = "Panic" THEN Return("Panic", x.why)
             ELSE IF x.res = "Err" THEN Return("Err", "h_execute")
             ELSE IF on_error = "ExitAllPositionsAndReturn"
             THEN Return("Err", err)
             ELSE /\ pc' = "h_step"
                  /\ UNCHANGED <<result, err>>
    /\ UNCHANGED <<w_last, orderVars, layerVars, marketVars, candleVars, api,
                   on_error, current_time, now, real_time, candles>>

\* self.step(&options) of ExitAllPositionsAndResume.
HandlerStep ==
    /\ pc = "h_step"
    /\ current_time' = StepTime(current_time)
    /\ candles' = StepCandles(candles)
    /\ pc' = "loop"
    /\ err' = "none"
    /\ hist' = [Phase("h_step") EXCEPT !.failed = "none"]
    /\ UNCHANGED <<walletVars, orderVars, layerVars, marketVars, candleVars,
                   api, on_error, now, real_time, open_positions, result>>

Next ==
    \/ RunStart
    \/ Sleep
    \/ Update
    \/ Fetch
    \/ ValuateStep
    \/ Eval
    \/ Valuate2
    \/ ExecuteStep
    \/ Status
    \/ Step
    \/ HandlerReturn
    \/ HandlerCloseAll
    \/ HandlerExecute
    \/ HandlerStep

Spec == Init /\ [][Next]_vars

\* C1: execute() conserves the total equity up to fees: the sum of value()
\* over the open positions plus wallet.total(quote) after execute() equals the
\* same quantity before it minus the fees paid on the fills of the tick.
C1_ExecuteStep ==
    (pc \in {"execute", "h_execute"} /\ hist'.exec = "Ok") =>
        EquityOf(wallet', open_positions')
            = EquityOf(wallet, open_positions) - hist'.fee

C1_EquityConservedUpToFees == [][C1_ExecuteStep]_vars

\* C2: in every state of the run loop every watched symbol whose queue is
\* not empty has a front entry whose key.time is current_time (and the
\* entries behind it follow at one interval each), so the assert_eq of
\* candle() holds and candle() returns a candle keyed at current_time.
C2_FrontAtCurrentTime ==
    \A s \in DOMAIN candles :
        \A i \in 1..Len(candles[s]) :
            candles[s][i].time = current_time + (i - 1) * Interval

\* A queue that kept an entry over the step of an error handler that resumed.
C2_Witness ==
    /\ pc = "loop"
    /\ hist.phases # <<>>
    /\ hist.phases[Len(hist.phases)] = "h_step"
    /\ current_time = Interval
    /\ \E s \in DOMAIN candles :
          candles[s] # <<>> /\ Head(candles[s]).close # NoCandle

TickOrder ==
    <<"update", "valuate", "eval", "valuate", "execute", "status", "step">>

IsTickPhase(x) == x \in {"update", "valuate", "eval", "execute", "status", "step"}

IsPrefix(a, b) == Len(a) <= Len(b) /\ \A i \in 1..Len(a) : a[i] = b[i]

TickInOrder == IsPrefix(SelectSeq(hist.phases, IsTickPhase), TickOrder)

C3_LoopStep ==
    /\ TickInOrder'
    /\ current_time' >= current_time
    /\ current_time' # current_time =>
          /\ pc \in {"step", "h_step"}
          /\ current_time' = current_time + Interval
    /\ pc = "step" =>
          /\ hist.phases = SubSeq(TickOrder, 1, 6)
          /\ current_time' = current_time + Interval
          /\ pc' = "loop"
    /\ (pc = "loop" /\ pc' = "loop") => current_time' = current_time

\* C3: an executed tick performs update, valuate, strategy.eval, valuate,
\* execute, status and step in this order; current_time changes only in
\* step(), by exactly +interval, once per executed tick; it does not change
\* while the loop sleeps and never decreases.
C3_TickOrder == [][C3_LoopStep]_vars

\* A tick done in full after the loop slept for its candle.
C3_Witness ==
    /\ hist.phases = TickOrder
    /\ current_time = Interval
    /\ real_time
    /\ pc = "loop"

\* C6: with the Simulate adapter the wallet calls of execute() never fail:
\* reserve never returns NotEnoughTotal and withdraw never NotEnoughReserved.
C6_WalletCallsNeverFail ==
    api = "Simulate" =>
        ~(result = "Panic" /\ err \in {"NotEnoughTotal", "NotEnoughReserved"})

AllClosed(ps) ==
    \A i \in DOMAIN ps : \A s \in DOMAIN ps[i].next_size : ps[i].next_size[s] = 0

EvalCount(phases) == Len(SelectSeq(phases, LAMBDA x : x = "eval"))

\* C7: when a step of a tick fails and on_error is ExitAllPositionsAndReturn,
\* run() sets next_size of every open position to zero, runs execute() once
\* and then returns the original error; strategy.eval is not invoked again.
C7_HandlerStep ==
    (on_error = "ExitAllPositionsAndReturn" /\ pc \in {"handler", "h_execute"})
        => /\ pc = "handler" =>
                 /\ pc' = "h_execute"
                 /\ AllClosed(open_positions')
           /\ pc = "h_execute" =>
                 /\ pc' = "done"
                 /\ result' = "Err"
                 /\ err' = hist.failed
                 /\ EvalCount(hist'.phases) <= 1

C7_ExitAllAndReturn == [][C7_HandlerStep]_vars

\* C8: when a tick fails and on_error is ExitAllPositionsAndResume, run()
\* closes all positions, runs execute(), advances current_time by one interval
\* popping one front candle per watched symbol, and continues with normal
\* ticks: it does not return because of that error.
C8_HandlerStep ==
    (on_error = "ExitAllPositionsAndResume"
        /\ pc \in {"handler", "h_execute", "h_step"})
        => /\ pc' # "done"
           /\ pc = "handler" =>
                 /\ pc' = "h_execute"
                 /\ AllClosed(open_positions')
           /\ pc = "h_execute" => pc' = "h_step"
           /\ pc = "h_step" =>
                 /\ pc' = "loop"
                 /\ current_time' = current_time + Interval
                 /\ \A s \in DOMAIN candles :
                       candles[s] # <<>> => candles'[s] = Tail(candles[s])

C8_ExitAllAndResume == [][C8_HandlerStep]_vars

ExecutedOk == hist.exec = "Ok" /\ pc \in {"status", "h_step", "done"}

Last(q) == q[Len(q)]

IsZeroBundle(b) == \A s \in DOMAIN b : b[s] = 0

\* What a caller can see of a position: sizes, valuation, value and pnl.
Observed(p) ==
    [current |-> p.current, next_size |-> p.next_size,
     value |-> Value(p), pnl |-> Pnl(p)]

C11_ExecuteStep ==
    (pc \in {"execute", "h_execute"} /\ hist'.exec = "Ok") =>
        /\ \A j \in DOMAIN open_positions' :
              LET q == open_positions'[j]
              IN /\ q.next_size = q.current.bundle
                 /\ IsZeroBundle(PositionOrder(q).bundle)
                 /\ \E i \in DOMAIN open_positions :
                       LET p == open_positions[i]
                       IN /\ q.deltas = Append(p.deltas, Last(q.deltas))
                          /\ q.current.bundle
                               = BundleAdd(p.current.bundle,
                                           Last(q.deltas).bundle)
        /\ LET orders == [j \in DOMAIN open_positions' |->
                             PositionOrder(open_positions'[j])]
           IN ~OrderPanics(orders) /\ ActualOrders(orders) = {}
        /\ \A x \in Execute(api, open_positions', wallet') :
              /\ x.res = "Ok"
              /\ x.fee = 0
              /\ x.wallet = wallet'
              /\ Len(x.positions) = Len(open_positions')
              /\ \A j \in DOMAIN open_positions' :
                    Observed(x.positions[j]) = Observed(open_positions'[j])

\* C11: after execute() every position that stays open has next_size equal
\* to current.bundle, and current.bundle is its value before execute() plus
\* the adjusted delta of the resize; so order() of every position is the zero
\* bundle, and an execute() repeated without new strategy changes submits no
\* order and changes neither the wallet nor the sizes, valuation, value and
\* pnl of any position.
C11_ExecuteSettles == [][C11_ExecuteStep]_vars

\* A second execute on a position that holds a size, under a venue that may
\* fill in part.
C11_Witness ==
    /\ ExecutedOk
    /\ api = "Ftx"
    /\ \E i \in DOMAIN open_positions :
          /\ Len(open_positions[i].deltas) >= 2
          /\ ~IsZeroBundle(open_positions[i].current.bundle)
          /\ ~IsZeroBundle(Last(open_positions[i].deltas).bundle)

---------------------------------------------------------------------------
(* One position under resizes and valuations: SpecPosition. *)

\* Largest size of a resize of the position.
MaxPosSize == 3
\* Prices are the multiples of 5000 up to this many.
MaxPriceStep == 4

PosPrices == {5000 * k : k \in 1..MaxPriceStep}

InitPosition ==
    /\ WalletIdle
    /\ LayerIdle
    /\ OrderIdle
    /\ CandleIdle
    /\ pc = "position"
    /\ api = "Simulate"
    /\ on_error = "Return"
    /\ current_time = 0
    /\ now = 0
    /\ real_time = FALSE
    /\ candles = EmptyMap
    /\ markets = NewMarkets
    /\ open_positions = <<DefaultPosition>>
    /\ result = "none"
    /\ err = "none"
    /\ hist = NoHist

\* position.valuate(valuation, time)
PosValuate ==
    /\ pc = "position"
    /\ \E price \in PosPrices :
          open_positions' =
              <<Valuate(open_positions[1], "BTC" :> price, current_time)>>
    /\ UNCHANGED <<walletVars, orderVars, layerVars, marketVars, candleVars,
                   pc, api, on_error, current_time, now, real_time, candles,
                   result, err, hist>>

\* position.resize(order): the first resize, of a signed size at a fill
\* price.
PosResize ==
    /\ pc = "position"
    /\ open_positions[1].deltas = <<>>
    /\ \E size \in (-MaxPosSize..MaxPosSize) \ {0}, price \in PosPrices :
          open_positions' =
              <<Resize(open_positions[1],
                       [bundle |-> "BTC" :> size,
                        valuation |-> "BTC" :> price,
                        time |-> current_time])>>
    /\ UNCHANGED <<walletVars, orderVars, layerVars, marketVars, candleVars,
                   pc, api, on_error, current_time, now, real_time, candles,
                   result, err, hist>>

NextPosition == PosValuate \/ PosResize

SpecPosition == InitPosition /\ [][NextPosition]_vars

\* C12: a single-symbol position opened by one resize of signed size s at
\* price p0 and then revalued at p1 has pnl() = s * (p1 - p0), value() =
\* |s| * p0 + pnl() and relative_pnl() = pnl() / (|s| * p0), long or short;
\* a position never resized has pnl, value and relative_pnl 0.
C12_SimplePosition ==
    pc = "position" =>
        LET p == open_positions[1]
        IN /\ p.deltas = <<>> =>
                 Pnl(p) = 0 /\ Value(p) = 0 /\ RelativePnl(p) = 0
           /\ (Len(p.deltas) = 1 /\ "BTC" \in DOMAIN p.current.valuation) =>
                 LET s == p.deltas[1].bundle["BTC"]
                     p0 == p.deltas[1].valuation["BTC"]
                     p1 == p.current.valuation["BTC"]
                 IN /\ Pnl(p) = s * (p1 - p0)
                    /\ Value(p) = Abs(s) * p0 + Pnl(p)
                    /\ RelativePnl(p)
                         = DivRound(s * (p1 - p0) * RelUnit, Abs(s) * p0)

\* A short of 2 opened at 10000 and revalued at 15000: pnl -10000, value
\* 10000, relative pnl -0.5.
C12_Witness ==
    /\ pc = "position"
    /\ Len(open_positions[1].deltas) = 1
    /\ open_positions[1].deltas[1].bundle["BTC"] = -2
    /\ open_positions[1].deltas[1].valuation["BTC"] = 10000
    /\ "BTC" \in DOMAIN open_positions[1].current.valuation
    /\ open_positions[1].current.valuation["BTC"] = 15000
    /\ Pnl(open_positions[1]) = -10000
    /\ Value(open_positions[1]) = 10000
    /\ 2 * RelativePnl(open_positions[1]) = -RelUnit

HoldsSize(p) == ~IsZeroBundle(p.current.bundle)

C13_ExecuteStep ==
    (pc \in {"execute", "h_execute"} /\ hist'.exec = "Ok") =>
        LET orders == [i \in DOMAIN open_positions |->
                          PositionOrder(open_positions[i])]
        IN \E infos \in PlaceOrders(api, ActualOrders(orders)) :
              LET r == ExchangeOrder(orders, infos)
                  resized == [i \in DOMAIN open_positions |->
                                 Resize(open_positions[i], r.adjusted[i])]
              IN /\ r.res = "Ok"
                 /\ wallet' = ExecuteWith(open_positions, wallet, orders,
                                          infos).wallet
                 /\ open_positions' = SelectSeq(resized, HoldsSize)

\* C13: execute() removes a position exactly when it is closed: every
\* position it removes has an all-zero current bundle after its resize, and
\* every position whose current bundle became all-zero is removed.
C13_RemovesExactlyClosed == [][C13_ExecuteStep]_vars

---------------------------------------------------------------------------
(* The life of one position on the exchange: the strategy opens it, changes
   its size or closes it, and every tick ends with valuate and execute at an
   unchanged price. *)

MaxExecutes == 4

LifePrice == 10000

LifeCandles == "BTC" :> <<[time |-> 0, close |-> LifePrice]>>

InitLife ==
    /\ OrderIdle
    /\ LayerIdle
    /\ CandleIdle
    /\ w_last = NoCall
    /\ wallet = StartWallet
    /\ pc = "life"
    /\ api \in Adapters
    /\ on_error = "Return"
    /\ current_time = 0
    /\ now = 0
    /\ real_time = FALSE
    /\ candles = LifeCandles
    /\ markets = VenueMarkets(0)
    /\ open_positions = <<>>
    /\ result = "none"
    /\ err = "none"
    /\ hist = NoHist

LifeIdle ==
    UNCHANGED <<orderVars, layerVars, marketVars, candleVars, w_last, wallet,
                pc, api, on_error, current_time, now, real_time, candles,
                result, err, hist>>

\* exchange.open(Position::default().long(..)) or .short(..)
LifeOpen ==
    /\ pc = "life"
    /\ open_positions = <<>>
    /\ \E q \in {-1, 1} : open_positions' = Open(open_positions, "BTC", q)
    /\ LifeIdle

\* *position.size(symbol) = q on the open position
LifeSize ==
    /\ pc = "life"
    /\ open_positions # <<>>
    /\ \E q \in {-1, 1} :
          open_positions' =
              [open_positions EXCEPT ![1].next_size =
                  [Entry(@, "BTC") EXCEPT !["BTC"] = q]]
    /\ LifeIdle

\* position.close()
LifeClose ==
    /\ pc = "life"
    /\ open_positions # <<>>
    /\ open_positions' = CloseAll(open_positions)
    /\ LifeIdle

\* The end of a tick: valuate, execute, step.
LifeExecute ==
    /\ pc = "life"
    /\ current_time < MaxExecutes
    /\ \E x \in Execute(api,
                        ValuateAll(open_positions, candles, current_time),
                        wallet) :
          /\ wallet' = x.wallet
          /\ open_positions' = x.positions
          /\ result' = x.res
          /\ err' = x.why
          /\ pc' = IF x.res = "Panic" THEN "done" ELSE "life"
    /\ current_time' = current_time + 1
    /\ UNCHANGED <<orderVars, layerVars, marketVars, candleVars, w_last, api,
                   on_error, now, real_time, candles, hist>>

NextLife == LifeOpen \/ LifeSize \/ LifeClose \/ LifeExecute

SpecLife == InitLife /\ [][NextLife]_vars

\* The resizes of a position that brought all its sizes to zero.
CloseRecords(p) ==
    {k \in Steps(p) : /\ ~IsZeroBundle(DeltaSum(p, k - 1))
                      /\ IsZeroBundle(DeltaSum(p, k))}

C14_ExecuteStep ==
    (pc = "life" /\ current_time' # current_time /\ result' = "Ok") =>
        \A j \in DOMAIN open_positions' :
            Len(open_positions'[j].deltas)
              = Len(open_positions[j].deltas) + 1

C14_OneClose ==
    \A i \in DOMAIN open_positions :
        Cardinality(CloseRecords(open_positions[i])) <= 1

\* C14: over every sequence of size changes, close() calls and executes,
\* each execute() applies exactly one resize to each open position, and the
\* history of a position never holds a close (a resize that brings all sizes
\* to zero) without an earlier open, nor two closes.
C14_Lifecycle == [][C14_ExecuteStep]_vars /\ []C14_OneClose

\* The tick that closes a position opened in the first tick.
ClosesRoundTrip ==
    /\ pc = "life"
    /\ api = "Simulate"
    /\ current_time = 1
    /\ current_time' = 2
    /\ result' = "Ok"
    /\ Len(open_positions) = 1
    /\ Len(open_positions[1].deltas) = 1
    /\ HoldsSize(open_positions[1])
    /\ IsZeroBundle(open_positions[1].next_size)

C15_CloseStep ==
    ClosesRoundTrip =>
        LET s == open_positions[1].current.bundle["BTC"]
        IN /\ open_positions' = <<>>
           /\ Total(wallet', QuoteAsset)
                = StartCapital
                    - DivRound(2 * Abs(s) * LifePrice * FeeNum, FeeDen)

\* C15: with the Simulate adapter at fee f, a position of size s opened at
\* price P in one tick and closed at the same price in a later tick leaves
\* wallet.total(quote) lower than before the opening by exactly 2*|s|*P*f,
\* long or short, and no position remains.
C15_RoundTripFee == [][C15_CloseStep]_vars

\* C16: Simulate.place_order fills every order completely, under the same
\* order_id, market, side and time, at current_price * (1 + fee) for a Buy
\* and current_price * (1 - fee) for a Sell, rounded to the price unit; so a
\* buy never fills below and a sell never above a positive current_price;
\* and the call changes no wallet.
C16_SimulateFills ==
    (ord_out.state = "done" /\ ord_out.api = "Simulate") =>
        /\ wallet = NewWallet
        /\ \A o \in ord_out.placed :
              LET info == ord_out.infos[o.market]
                  fee_side == IF o.side = "Buy" THEN FeeNum ELSE -FeeNum
              IN /\ info.size = o.size
                 /\ info.order_id = o.order_id
                 /\ info.market = o.market
                 /\ info.side = o.side
                 /\ info.time = o.time
                 /\ info.price
                      = RoundHalfEven(o.current_price * (FeeDen + fee_side),
                                      FeeDen)
                 /\ (o.current_price > 0 /\ o.side = "Buy") =>
                        info.price >= o.current_price
                 /\ (o.current_price > 0 /\ o.side = "Sell") =>
                        info.price <= o.current_price

\* A buy of 2 BTC filled at 10007 and a sell of 1 ETH filled at 4996 (4996.5
\* rounded to even).
C16_Witness ==
    /\ ord_out.state = "done"
    /\ ord_out.api = "Simulate"
    /\ \E o \in ord_out.placed :
          /\ o.market = "BTC" /\ o.side = "Buy" /\ o.size = 2
          /\ ord_out.infos["BTC"].size = 2
          /\ ord_out.infos["BTC"].price = 10007
    /\ \E o \in ord_out.placed :
          /\ o.market = "ETH" /\ o.side = "Sell" /\ o.size = 1
          /\ ord_out.infos["ETH"].price = 4996

C17_UpdateStep ==
    (api = "Simulate" /\ pc \in {"start", "loop"}) =>
        /\ ~IsFresh(wallet) => wallet' = wallet
        /\ IsFresh(wallet) => wallet' \in {wallet, StartWallet}
        /\ ~IsFreshMarkets(markets) => markets' = markets

C17_ExecuteStep ==
    (api = "Simulate" /\ pc \in {"execute", "h_execute"}) => ~IsFresh(wallet')

\* C17: Simulate.update_wallet and Simulate.update_markets leave a target
\* that is not fresh unchanged; the wallet is overwritten with the start
\* wallet only while it is fresh, and the wallet execute() leaves is never
\* fresh, so no later update_wallet resets the balances execute() produced.
C17_SimulateKeepsWallet == [][C17_UpdateStep /\ C17_ExecuteStep]_vars

\* The update of the second tick has run on a wallet the first tick's
\* execute() changed and on markets that are older than the venue's.
C17_Witness ==
    /\ api = "Simulate"
    /\ pc = "fetch"
    /\ current_time = Interval
    /\ wallet # StartWallet
    /\ open_positions # <<>>
    /\ markets = VenueMarkets(0)
    /\ markets # VenueMarkets(current_time)

---------------------------------------------------------------------------
(* The candle adapters (src/src/apis): the Ftx backend and the layers above
   it, asked for the candles of one market at one interval.  Times are in
   clock units; the venue has candles at multiples of Interval. *)

\* The most entries one request returns (limit: Some(5000)).
CandleLimit == 3

MaxGrid == 3

MaxNow == 8

\* ForwardFill.max_duration: a gap of one interval is filled, one of two is
\* not.
max_duration == 3

CandleMarket == "BTC"

GridTimes == {k * Interval : k \in 0..MaxGrid}

VenueCandle(t) == [time |-> t, close |-> 100 + t]

NoneAt(t) == [time |-> t, close |-> NoCandle]

RECURSIVE Ascending(_)
Ascending(S) ==
    IF S = {} THEN <<>>
    ELSE LET m == CHOOSE x \in S : \A y \in S : x <= y
         IN <<m>> \o Ascending(S \ {m})

Take(q, n) == SubSeq(q, 1, IF Len(q) < n THEN Len(q) ELSE n)

\* The answer of the venue to GetHistoricalPrices: the start times of its
\* candles from start_time to end_time, oldest first, at most the limit.
HistoricalPrices(v, t, clock) ==
    Take(Ascending({x \in v : /\ x >= t
                              /\ x <= t + CandleLimit * Interval
                              /\ x <= clock}),
         CandleLimit)

\* A loop that leaves out the entries of a gap.
PadToSkip(out, next_key, curr_key, end_time) ==
    [out |-> out, next_key |-> curr_key, brk |-> FALSE]

\* while next_key != curr_key { push None; advance; break 'result_loop at
\* the end of the window }
RECURSIVE PadTo(_, _, _, _)
PadTo(out, next_key, curr_key, end_time) ==
    IF next_key = curr_key
    THEN [out |-> out, next_key |-> next_key, brk |-> FALSE]
    ELSE LET padded == Append(out, NoneAt(next_key))
             advanced == next_key + Interval
         IN IF advanced >= end_time
            THEN [out |-> padded, next_key |-> advanced, brk |-> TRUE]
            ELSE PadTo(padded, advanced, curr_key, end_time)

\* 'result_loop
RECURSIVE ResultLoop(_, _, _, _)
ResultLoop(cs, out, next_key, end_time) ==
    IF cs = <<>> THEN [out |-> out, next_key |-> next_key]
    ELSE LET p == PadTo(out, next_key, Head(cs), end_time)
         IN IF p.brk THEN [out |-> p.out, next_key |-> p.next_key]
            ELSE ResultLoop(Tail(cs),
                            Append(p.out, VenueCandle(Head(cs))),
                            p.next_key + Interval, end_time)

\* for _ in out.len()..5000 { break at now - 2 * interval; push None }
RECURSIVE PadPast(_, _, _, _)
PadPast(out, next_key, n, clock) ==
    IF n <= 0 \/ next_key >= clock - 2 * Interval THEN out
    ELSE PadPast(Append(out, NoneAt(next_key)), next_key + Interval, n - 1,
                 clock)

\* Ftx::get_candles for the key at time t, on the venue's candles v.
FtxGetCandles(t, clock, v) ==
    LET r == ResultLoop(HistoricalPrices(v, t, clock), <<>>, t,
                        t + CandleLimit * Interval)
    IN PadPast(r.out, r.next_key, CandleLimit - Len(r.out), clock)

\* A loop that loses the first entry of the answer.
FillFromSecond(cs, i, out, cache, clock) ==
    [res |-> "Ok", out |-> Tail(cs), cache |-> cache]

\* The for loop of ForwardFill::get_candles over a non-empty answer.
RECURSIVE FillFrom(_, _, _, _, _)
FillFrom(cs, i, out, cache, clock) ==
    IF i > Len(cs) THEN [res |-> "Ok", out |-> out, cache |-> cache]
    ELSE IF cs[i].close # NoCandle
    THEN FillFrom(cs, i + 1, Append(out, cs[i]),
                  CandleMarket :> [time |-> cs[i].time,
                                   close |-> cs[i].close],
                  clock)
    ELSE IF cs[i].time >= clock - 2 * Interval
    THEN [res |-> "Ok", out |-> out \o SubSeq(cs, i, Len(cs)),
          cache |-> cache]
    ELSE IF CandleMarket \in DOMAIN cache
    THEN IF cs[i].time - cache[CandleMarket].time <= max_duration
         THEN FillFrom(cs, i + 1,
                       Append(out, [time |-> cs[i].time,
                                    close |-> cache[CandleMarket].close]),
                       cache, clock)
         ELSE [res |-> "Panic", out |-> <<>>, cache |-> cache]
    ELSE FillFrom(cs, i + 1, Append(out, cs[i]), cache, clock)

\* ForwardFill::get_candles on the answer cs of the layer below.
ForwardFillGetCandles(cache, t, clock, cs) ==
    IF cs = <<>>
    THEN IF t >= clock - 2 * Interval
         THEN [res |-> "Ok", out |-> <<>>, cache |-> cache]
         ELSE IF CandleMarket \in DOMAIN cache
         THEN IF t - cache[CandleMarket].time <= max_duration
              THEN [res |-> "Ok",
                    out |-> <<[time |-> t,
                               close |-> cache[CandleMarket].close]>>,
                    cache |-> cache]
              ELSE [res |-> "Panic", out |-> <<>>, cache |-> cache]
         ELSE [res |-> "Ok", out |-> <<NoneAt(t)>>, cache |-> cache]
    ELSE FillFrom(cs, 1, <<>>, cache, clock)

\* The rows of the table from a time on, up to the first gap.
RECURSIVE StoredPrefix(_, _, _)
StoredPrefix(tbl, t, n) ==
    IF n = 0 \/ t \notin DOMAIN tbl THEN <<>>
    ELSE <<[time |-> t, close |-> tbl[t]]>>
           \o StoredPrefix(tbl, t + Interval, n - 1)

\* INSERT ... ON CONFLICT IGNORE of the candles of an answer.
StoreInsert(tbl, cs) ==
    LET new == {cs[i].time : i \in {j \in DOMAIN cs : cs[j].close # NoCandle}}
        row(x) == CHOOSE i \in DOMAIN cs : cs[i].time = x
    IN [x \in DOMAIN tbl \cup new |->
           IF x \in DOMAIN tbl THEN tbl[x] ELSE cs[row(x)].close]

\* Store::get_candles: the stored rows from the key on, or on a miss the
\* answer cs of the layer below, which is stored.
StoreGetCandles(tbl, t, cs) ==
    LET rows == StoredPrefix(tbl, t, CandleLimit)
    IN IF rows # <<>> THEN [out |-> rows, store |-> tbl, miss |-> FALSE]
       ELSE [out |-> cs, store |-> StoreInsert(tbl, cs), miss |-> TRUE]

\* The last candle the layer below has handed to ForwardFill.
LastSeen(seen, cs) ==
    LET some == {i \in DOMAIN cs : cs[i].close # NoCandle}
    IN IF some = {} THEN seen
       ELSE LET i == CHOOSE x \in some : \A y \in some : y <= x
            IN CandleMarket :> [time |-> cs[i].time, close |-> cs[i].close]

InitCandles ==
    /\ WalletIdle
    /\ LayerIdle
    /\ OrderIdle
    /\ pc = "candles"
    /\ api = "Ftx"
    /\ on_error = "Return"
    /\ current_time = 0
    /\ now = 0
    /\ real_time = FALSE
    /\ candles = EmptyMap
    /\ markets = NewMarkets
    /\ open_positions = <<>>
    /\ result = "none"
    /\ err = "none"
    /\ hist = NoHist
    /\ venue \in SUBSET GridTimes
    /\ ff_cache = EmptyMap
    /\ store = EmptyMap
    /\ call = [layer |-> "none", seen |-> EmptyMap]

CandleFrame ==
    UNCHANGED <<walletVars, orderVars, layerVars, marketVars, api, on_error,
                current_time, real_time, candles, open_positions, result,
                err, hist, venue>>

Answer(layer, t, clock, under, out, res) ==
    [layer |-> layer, key |-> t, clock |-> clock, under |-> under,
     out |-> out, res |-> res, cache |-> ff_cache, rows |-> DOMAIN store,
     seen0 |-> call.seen, seen |-> call.seen, miss |-> FALSE]

\* Time passes.
CandleTick ==
    /\ pc = "candles"
    /\ now < MaxNow
    /\ now' = now + 1
    /\ UNCHANGED <<pc, ff_cache, store, call>>
    /\ CandleFrame

\* ftx.get_candles(key)
FtxCall ==
    /\ pc = "candles"
    /\ \E t \in GridTimes :
          LET under == FtxGetCandles(t, now, venue)
          IN call' = Answer("Ftx", t, now, under, under, "Ok")
    /\ UNCHANGED <<pc, now, ff_cache, store>>
    /\ CandleFrame

\* forward_fill.get_candles(key): the layer reads the clock after the
\* backend has.
ForwardFillCall ==
    /\ pc = "candles"
    /\ \E t \in GridTimes, clock \in {now, now + 1} :
          LET under == FtxGetCandles(t, now, venue)
              r == ForwardFillGetCandles(ff_cache, t, clock, under)
          IN /\ clock <= MaxNow
             /\ now' = clock
             /\ ff_cache' = r.cache
             /\ pc' = IF r.res = "Panic" THEN "done" ELSE "candles"
             /\ call' = [Answer("ForwardFill", t, clock, under, r.out, r.res)
                           EXCEPT !.seen = LastSeen(call.seen, under)]
    /\ UNCHANGED store
    /\ CandleFrame

\* store.get_candles(key)
StoreCall ==
    /\ pc = "candles"
    /\ \E t \in GridTimes :
          LET under == FtxGetCandles(t, now, venue)
              r == StoreGetCandles(store, t, under)
          IN /\ store' = r.store
             /\ call' = [Answer("Store", t, now, under, r.out, "Ok")
                           EXCEPT !.miss = r.miss]
    /\ UNCHANGED <<pc, now, ff_cache>>
    /\ CandleFrame

\* simulate.get_candles(key)
SimulateCall ==
    /\ pc = "candles"
    /\ \E t \in GridTimes :
          LET under == FtxGetCandles(t, now, venue)
          IN call' = Answer("Simulate", t, now, under, under, "Ok")
    /\ UNCHANGED <<pc, now, ff_cache, store>>
    /\ CandleFrame

\* The request to the venue fails: .expect("Request failed for: ...")
RequestFails ==
    /\ pc = "candles"
    /\ call' = [layer |-> "none", res |-> "Panic", seen |-> call.seen]
    /\ pc' = "done"
    /\ UNCHANGED <<now, ff_cache, store>>
    /\ CandleFrame

NextCandles ==
    \/ CandleTick
    \/ FtxCall
    \/ ForwardFillCall
    \/ StoreCall
    \/ SimulateCall
    \/ RequestFails

SpecCandles == InitCandles /\ [][NextCandles]_vars

Answered(layer) == call.layer = layer /\ call.res = "Ok"

IsNone(e) == e.close = NoCandle

\* C19: no adapter layer returns an entry (key, None) whose key.time is at
\* or after now - 2 * interval, and a request whose key.time lies in that
\* window and has no data returns an empty sequence.
C19_NoRecentNone ==
    \A layer \in {"Ftx", "ForwardFill"} :
        Answered(layer) =>
            /\ \A i \in DOMAIN call.out :
                  IsNone(call.out[i]) =>
                      call.out[i].time < call.clock - 2 * Interval
            /\ (/\ call.key >= call.clock - 2 * Interval
                /\ \A x \in venue : x < call.key) =>
                   call.out = <<>>

\* The last candle ForwardFill has seen before entry i of the answer below.
SeenBefore(i) == LastSeen(call.seen0, SubSeq(call.under, 1, i - 1))

HasSeen(c) == CandleMarket \in DOMAIN c

\* Entry i is missing, old enough by `old`, and a seen candle is near.
Fillable(i, old) ==
    /\ IsNone(call.under[i])
    /\ old
    /\ HasSeen(SeenBefore(i))
    /\ call.under[i].time - SeenBefore(i)[CandleMarket].time <= max_duration

TooStale(i, old) ==
    /\ IsNone(call.under[i])
    /\ old
    /\ HasSeen(SeenBefore(i))
    /\ call.under[i].time - SeenBefore(i)[CandleMarket].time > max_duration

\* The time of the candle an entry carries: the venue's closes tell it.
CandleTime(e) == e.close - 100

ForwardFillClaim(Old(_)) ==
    (call.layer = "ForwardFill" /\ call.under # <<>>) =>
        /\ (\E i \in DOMAIN call.under : TooStale(i, Old(i))) =>
               call.res = "Panic"
        /\ call.res = "Ok" =>
              /\ Len(call.out) = Len(call.under)
              /\ \A i \in DOMAIN call.under :
                    /\ ~IsNone(call.under[i]) => call.out[i] = call.under[i]
                    /\ IsNone(call.under[i]) =>
                          /\ ~IsNone(call.out[i]) <=> Fillable(i, Old(i))
                          /\ Fillable(i, Old(i)) =>
                                call.out[i].close
                                  = SeenBefore(i)[CandleMarket].close
              /\ \A i \in DOMAIN call.out :
                    ~IsNone(call.out[i]) =>
                        call.out[i].time - CandleTime(call.out[i])
                          <= max_duration

AtLeastTwoIntervalsOld(i) ==
    call.under[i].time <= call.clock - 2 * Interval

\* C18: ForwardFill.get_candles replaces a None entry by the last seen
\* candle exactly when the entry is at least two intervals before now and
\* the last seen candle is at most max_duration older than it; when it is
\* older the call fails fatally; and no returned sequence holds a
\* substituted candle staler than max_duration.
C18_ForwardFill == ForwardFillClaim(AtLeastTwoIntervalsOld)

Dense(cs) == \A i \in DOMAIN cs : ~IsNone(cs[i])

SameKeyAgain ==
    /\ pc = "candles"
    /\ call.layer \in {"Store", "ForwardFill", "Simulate"}
    /\ call.res = "Ok"
    /\ call'.layer = call.layer
    /\ call'.res = "Ok"
    /\ call'.key = call.key
    /\ call'.under = call.under
    /\ Dense(call.under)

C20_AllOfIt ==
    \A layer \in {"Store", "ForwardFill", "Simulate"} :
        (Answered(layer) /\ Dense(call.under)) => call.out = call.under

C20_DenseNotEmpty ==
    /\ \A layer \in {"ForwardFill", "Simulate"} :
          (Answered(layer) /\ Dense(call.under) /\ call.under # <<>>) =>
              call.out = call.under
    /\ (Answered("Store") /\ Dense(call.under) /\ call.under # <<>>) =>
          /\ call.out # <<>>
          /\ IsPrefix(call.out, call.under)
          /\ call.miss => call.out = call.under

Contiguous(t, out) ==
    \A i \in DOMAIN out : out[i].time = t + (i - 1) * Interval

\* A candle of an answer is the venue's candle of its time.
Unshifted(out) ==
    \A i \in DOMAIN out :
        ~IsNone(out[i]) =>
            out[i].time \in venue /\ out[i] = VenueCandle(out[i].time)

C21_StoreCut ==
    /\ Answered("Store")
    /\ call.key \in call.rows
    /\ call.key + Interval \notin call.rows
    /\ call.key + 2 * Interval \in call.rows
    /\ Len(call.out) = 1

---------------------------------------------------------------------------
(* The Bundle operators on any two bundles: SpecBundle.  A bundle holds    *)
(* any subset of the symbols, a held quantity may be zero.                 *)

\* Largest quantity of a bundle entry.
MaxBundleQty == 2
\* Longest chain of operations applied to the left operand.
MaxOps == 2

Bundles ==
    UNION {[S -> -MaxBundleQty..MaxBundleQty] : S \in SUBSET Symbols}

BundleOps == {"add", "sub", "mul"}

ApplyOp(op, a, b) ==
    CASE op = "add" -> BundleAdd(a, b)
      [] op = "sub" -> BundleSub(a, b)
      [] op = "mul" -> BundleMul(a, b)

InitBundle ==
    /\ WalletIdle
    /\ OrderIdle
    /\ CandleIdle
    /\ pc = "bundle"
    /\ api = "Simulate"
    /\ on_error = "Return"
    /\ current_time = 0
    /\ now = 0
    /\ real_time = FALSE
    /\ candles = EmptyMap
    /\ markets = NewMarkets
    /\ open_positions = <<>>
    /\ result = "none"
    /\ err = "none"
    /\ hist = NoHist
    /\ \E a \in Bundles, b \in Bundles :
          calc = [op |-> "bundle", a |-> a, b |-> b, ops |-> <<>>, out |-> a]
    /\ MonitorIdle
    /\ LevelsIdle

BundleFrame ==
    UNCHANGED <<walletVars, orderVars, marketVars, candleVars, loopVars,
                monitorVars, levelsVars>>

\* out = &out op &b
BundleStep(op) ==
    /\ pc = "bundle"
    /\ Len(calc.ops) < MaxOps
    /\ calc' = [calc EXCEPT !.ops = Append(@, op),
                            !.out = ApplyOp(op, calc.out, calc.b)]
    /\ BundleFrame

BundleAddStep == BundleStep("add")
BundleSubStep == BundleStep("sub")
BundleMulStep == BundleStep("mul")

NextBundle == BundleAddStep \/ BundleSubStep \/ BundleMulStep

SpecBundle == InitBundle /\ [][NextBundle]_vars

\* C28: for all bundles a and b, also a b with symbols a does not hold,
\* (a + b) - b == a under the derived equality of Bundle, which compares the
\* maps key by key.
C28_AddThenSub ==
    (pc = "bundle" /\ calc.ops = <<"add", "sub">>) => calc.out = calc.a

\* C29: every Bundle operation reads a missing symbol as 0: the sum, the
\* difference and the element-wise product hold at every symbol the sum,
\* the difference and the product of the operands' quantities, and a * b
\* equals b * a entry by entry.
EntryWise(op, x, y) ==
    CASE op = "add" -> x + y
      [] op = "sub" -> x - y
      [] op = "mul" -> x * y

C29_MissingIsZero ==
    (pc = "bundle" /\ Len(calc.ops) = 1) =>
        /\ \A s \in Symbols :
              Get(calc.out, s) =
                  EntryWise(calc.ops[1], Get(calc.a, s), Get(calc.b, s))
        /\ \A s \in Symbols :
              Get(BundleMul(calc.a, calc.b), s)
                  = Get(BundleMul(calc.b, calc.a), s)

---------------------------------------------------------------------------
(* Position::fit on any position and any market rules: SpecFit.            *)

\* Largest min_size of a market.
MaxMinSize == 3

FitValuation == [s \in Symbols |-> IF s = "BTC" THEN 10000 ELSE 5000]

\* A market's rules: no size increment or an increment of two size units.
FitMarkets ==
    {[s \in Symbols |->
         [symbol |-> s, min_size |-> m, size_increment |-> inc[s]]] :
       m \in 0..MaxMinSize, inc \in [Symbols -> {0, 2}]}

\* A position that holds the bundle c (never resized when c is empty) and
\* whose sizes n were set with size().
FitPosition(c, n) ==
    LET valued == Valuate(DefaultPosition, FitValuation, 0)
        held == IF c = EmptyMap THEN valued
                ELSE Resize(valued, [bundle |-> c,
                                     valuation |-> FitValuation,
                                     time |-> 0])
    IN [held EXCEPT !.next_size = n @@ @]

InitFit ==
    /\ WalletIdle
    /\ OrderIdle
    /\ CandleIdle
    /\ pc = "fit"
    /\ api = "Simulate"
    /\ on_error = "Return"
    /\ current_time = 0
    /\ now = 0
    /\ real_time = FALSE
    /\ candles = EmptyMap
    /\ markets = NewMarkets
    /\ open_positions = <<>>
    /\ result = "none"
    /\ err = "none"
    /\ hist = NoHist
    /\ \E c \in Bundles, n \in Bundles, mk \in FitMarkets :
          calc = [op |-> "position", p |-> FitPosition(c, n), mk |-> mk]
    /\ MonitorIdle
    /\ LevelsIdle

\* let loss = position.fit(exchange)
FitStep ==
    /\ pc = "fit"
    /\ calc.op = "position"
    /\ calc' = [op |-> "fit", p |-> calc.p, mk |-> calc.mk,
                out |-> FitWith(calc.p, calc.mk),
                loss |-> FitLoss(calc.p, calc.mk)]
    /\ UNCHANGED <<walletVars, orderVars, marketVars, candleVars, loopVars,
                   monitorVars, levelsVars>>

NextFit == FitStep

SpecFit == InitFit /\ [][NextFit]_vars

\* The fit under way: its position, the order it asks for and its markets.
Fitted == pc = "fit" /\ calc.op = "fit"
FitSymbols == DOMAIN calc.p.next_size \cup DOMAIN calc.p.current.bundle
FitOrder(s) == Get(calc.p.next_size, s) - Get(calc.p.current.bundle, s)
ZeroIncrements == \A s \in FitSymbols : calc.mk[s].size_increment = 0
Snapped(s) == Abs(FitOrder(s)) < calc.mk[s].min_size

FittedOrder(s) ==
    Get(calc.out.next_size, s) - Get(calc.p.current.bundle, s)

RoundedOrder(s) == RoundSize(calc.mk[s], FitOrder(s))

\* C31: after fit() the order next_size - current.bundle of every symbol is
\* exactly zero or has a magnitude of at least the market's min_size: an
\* order whose magnitude after rounding to size_increment is below min_size
\* is snapped back to the current size, and an order whose rounded magnitude
\* reaches min_size is kept.
C31_MinSize ==
    Fitted =>
      \A s \in FitSymbols :
        /\ FittedOrder(s) = 0 \/ Abs(FittedOrder(s)) >= calc.mk[s].min_size
        /\ FittedOrder(s) =
              IF Abs(RoundedOrder(s)) < calc.mk[s].min_size THEN 0
              ELSE RoundedOrder(s)

\* The first half of C31 alone.
C31_ZeroOrAtLeastMin ==
    Fitted =>
      \A s \in FitSymbols :
        FittedOrder(s) = 0 \/ Abs(FittedOrder(s)) >= calc.mk[s].min_size

\* C32: on a market with size_increment > 0 every order fit() keeps, buy or
\* sell, is rounded to a multiple of size_increment with the sign of the
\* requested quantity and a magnitude of at least the requested magnitude.
C32_NeverUnderOrders ==
    Fitted =>
      \A s \in FitSymbols :
        (calc.mk[s].size_increment > 0 /\ FitOrder(s) # 0 /\ ~Snapped(s)) =>
            /\ FittedOrder(s) % calc.mk[s].size_increment = 0
            /\ Signum(FittedOrder(s)) = Signum(FitOrder(s))
            /\ Abs(FittedOrder(s)) >= Abs(FitOrder(s))

\* C32 for buys alone.
C32_Buys ==
    Fitted =>
      \A s \in FitSymbols :
        (calc.mk[s].size_increment > 0 /\ FitOrder(s) > 0 /\ ~Snapped(s)) =>
            /\ FittedOrder(s) % calc.mk[s].size_increment = 0
            /\ FittedOrder(s) >= FitOrder(s)

---------------------------------------------------------------------------
(* The Monitor adapter (src/src/apis/monitor.rs) over one tick:            *)
(* SpecMonitor.  Monitor::new spawns the consumer task; the trading path   *)
(* says hello, places the orders of the tick concurrently (join_all in     *)
(* Exchange::order) and reports its status.                                *)

\* status() is called with a time whose minute is 0 or 1.
MonitorTimes == {0, 1}
Minute(t) == t % 60

\* The coalesced order of the tick: a buy or a sell of one unit on any of
\* the symbols.
MonitorBundles == UNION {[S -> {-1, 1}] : S \in SUBSET Symbols}

\* The log records the channel carries.
SessionRec == [kind |-> "Session"]
EquityRec(t) == [kind |-> "Equity", time |-> t]
OrderRec(o) == [kind |-> "Order", order |-> o]
InfoRec(r) == [kind |-> "OrderInfo", info |-> r]

\* UnboundedSender::send fails when the receiver is gone and never waits.
SendOk(c) == c # "dead"

\* A channel that hands out the newest record first.
SendFront(q, c, rec) == IF SendOk(c) THEN <<rec>> \o q ELSE q

Send(q, c, rec) == IF SendOk(c) THEN Append(q, rec) ELSE q

\* A send whose failure is returned to the caller.
AfterSendChecked(ok, r) == IF ok THEN r ELSE [err |-> "SendError"]

\* self.tx.send(..).ok(): the outcome of the send is dropped.
AfterSend(ok, r) == r

InitMonitor ==
    /\ WalletIdle
    /\ OrderIdle
    /\ CandleIdle
    /\ pc = "hello"
    /\ api \in Adapters
    /\ on_error = "Return"
    /\ current_time \in MonitorTimes
    /\ now = 0
    /\ real_time = FALSE
    /\ candles = EmptyMap
    /\ markets = NewMarkets
    /\ open_positions = <<>>
    /\ result = "none"
    /\ err = "none"
    /\ hist = NoHist
    /\ calc = NoCalc
    /\ LevelsIdle
    /\ chan = <<>>
    /\ consumer = "connecting"
    /\ logged = <<>>
    /\ \E b \in MonitorBundles :
          placing =
              [s \in DOMAIN b |->
                  [state |-> "new",
                   order |-> OrderOf([bundle |-> b,
                                      valuation |-> FitValuation,
                                      time |-> current_time], s)]]

MonitorFrame ==
    UNCHANGED <<walletVars, orderVars, marketVars, candleVars, levelsVars,
                calc, api,
                on_error, current_time, now, real_time, candles,
                open_positions, err, hist>>

\* Monitor::hello
Hello ==
    /\ pc = "hello"
    /\ chan' = Send(chan, consumer, SessionRec)
    /\ pc' = "order"
    /\ UNCHANGED <<consumer, logged, placing, result>>
    /\ MonitorFrame

\* Monitor::place_order up to the await of the inner call.
PlaceStart(s) ==
    /\ pc = "order"
    /\ placing[s].state = "new"
    /\ chan' = Send(chan, consumer, OrderRec(placing[s].order))
    /\ placing' = [placing EXCEPT ![s].state = "inner"]
    /\ UNCHANGED <<pc, consumer, logged, result>>
    /\ MonitorFrame

\* Monitor::place_order from the return of the inner call.
PlaceReturn(s) ==
    /\ pc = "order"
    /\ placing[s].state = "inner"
    /\ \E r \in PlaceOrder(api, placing[s].order) :
          IF IsErr(r)
          THEN /\ placing' = [placing EXCEPT ![s] =
                      [state |-> "failed", order |-> @.order,
                       inner |-> r, ret |-> r]]
               /\ UNCHANGED chan
          ELSE /\ chan' = Send(chan, consumer, InfoRec(r))
               /\ placing' = [placing EXCEPT ![s] =
                      [state |-> "done", order |-> @.order, inner |-> r,
                       ret |-> AfterSend(SendOk(consumer), r)]]
    /\ UNCHANGED <<pc, consumer, logged, result>>
    /\ MonitorFrame

Returned(s) == placing[s].state \in {"done", "failed"}

\* join_all(..).await.into_iter().collect(): an error when a placement
\* failed, which ends the tick before its status.
JoinAll ==
    /\ pc = "order"
    /\ \A s \in DOMAIN placing : Returned(s)
    /\ IF \E s \in DOMAIN placing : IsErr(placing[s].ret)
       THEN pc' = "failed" /\ result' = "Err"
       ELSE pc' = "status" /\ UNCHANGED result
    /\ UNCHANGED <<chan, consumer, logged, placing>>
    /\ MonitorFrame

\* Monitor::status
MonitorStatus ==
    /\ pc = "status"
    /\ chan' = IF Minute(current_time) = 0
               THEN Send(chan, consumer, EquityRec(current_time))
               ELSE chan
    /\ pc' = "done"
    /\ UNCHANGED <<consumer, logged, placing, result>>
    /\ MonitorFrame

MonitorPhases == {"hello", "order", "status", "done", "failed"}

\* The consumer task: PgPoolOptions::connect returns.
Connect ==
    /\ pc \in MonitorPhases
    /\ consumer = "connecting"
    /\ consumer' \in {"running", "discarding"}
    /\ UNCHANGED <<pc, chan, logged, placing, result>>
    /\ MonitorFrame

\* env::var("DATABASE_URL").unwrap() panics: the task ends, the receiver
\* and what it had queued are dropped.
ConsumerPanics ==
    /\ pc \in MonitorPhases
    /\ consumer = "connecting"
    /\ consumer' = "dead"
    /\ chan' = <<>>
    /\ UNCHANGED <<pc, logged, placing, result>>
    /\ MonitorFrame

\* rx.recv().await returns the oldest record: log.update(..) when the
\* consumer is running, nothing when it discards.
ConsumerRecv ==
    /\ pc \in MonitorPhases
    /\ consumer \in {"running", "discarding"}
    /\ chan # <<>>
    /\ logged' = Append(logged, Head(chan))
    /\ chan' = Tail(chan)
    /\ UNCHANGED <<pc, consumer, placing, result>>
    /\ MonitorFrame

TradingPath ==
    \/ Hello
    \/ \E s \in DOMAIN placing : PlaceStart(s)
    \/ \E s \in DOMAIN placing : PlaceReturn(s)
    \/ JoinAll
    \/ MonitorStatus

ConsumerTask == Connect \/ ConsumerPanics \/ ConsumerRecv

NextMonitor == TradingPath \/ ConsumerTask

SpecMonitor == InitMonitor /\ [][NextMonitor]_vars

\* The trading path is the task run() is awaited on: it is polled until it
\* returns.  Nothing is assumed of the consumer task.
FairSpecMonitor == SpecMonitor /\ WF_vars(TradingPath)

\* The records in the order the consumer receives them: those it has
\* received, then those queued.
Stream == logged \o chan

OrdersOf(q, s) == {i \in DOMAIN q : q[i] = OrderRec(placing[s].order)}
InfosOf(q, s) ==
    {i \in DOMAIN q : q[i].kind = "OrderInfo" /\ q[i].info.market = s}

SameOrderId(info, o) ==
    "order_id" \in DOMAIN info => info.order_id = o.order_id

\* C22: the Order record is enqueued before the inner place_order starts,
\* the OrderInfo record of the same order only after the inner call
\* succeeded; the consumer receives in FIFO order, so it handles the insert
\* of an order before its update under every interleaving of the
\* placements; a failed placement enqueues no OrderInfo and returns the
\* inner error.
C22_InsertBeforeUpdate ==
    pc \in MonitorPhases =>
      \A s \in DOMAIN placing :
        LET st == placing[s].state IN
        /\ st = "new" => OrdersOf(Stream, s) = {} /\ InfosOf(Stream, s) = {}
        /\ (st # "new" /\ consumer # "dead") =>
              Cardinality(OrdersOf(Stream, s)) = 1
        /\ st \in {"inner", "failed"} => InfosOf(Stream, s) = {}
        /\ st = "failed" =>
              IsErr(placing[s].ret) /\ placing[s].ret = placing[s].inner
        /\ (st = "done" /\ consumer # "dead") =>
              Cardinality(InfosOf(Stream, s)) = 1
        /\ \A i \in InfosOf(Stream, s) :
              /\ st = "done"
              /\ Stream[i].info = placing[s].inner
              /\ SameOrderId(Stream[i].info, placing[s].order)
              /\ \E j \in OrdersOf(Stream, s) : j < i
        /\ \A i \in InfosOf(logged, s) :
              \E j \in OrdersOf(logged, s) : j < i

\* Two orders placed concurrently, the second confirmed first, and the
\* consumer has handled the insert and the update of one of them.
C22_Witness ==
    /\ pc \in MonitorPhases
    /\ consumer = "running"
    /\ DOMAIN placing = Symbols
    /\ \A s \in Symbols : placing[s].state = "done"
    /\ \E s \in Symbols, t \in Symbols :
          /\ s # t
          /\ \E i \in OrdersOf(Stream, s), j \in OrdersOf(Stream, t),
                k \in InfosOf(Stream, t), l \in InfosOf(Stream, s) :
                i < j /\ j < k /\ k < l
          /\ InfosOf(logged, t) # {}

\* C23: whatever the consumer does (running, slow, failed to connect, or
\* ended with its receiver dropped), place_order returns exactly what the
\* inner adapter returned, the tick ends as the inner results alone decide,
\* and hello, place_order and status never wait: the trading path always
\* reaches the end of the tick.
C23_Returns ==
    pc \in MonitorPhases =>
      /\ \A s \in DOMAIN placing :
            Returned(s) =>
              /\ placing[s].ret = placing[s].inner
              /\ placing[s].ret \in PlaceOrder(api, placing[s].order)
      /\ pc = "failed" => \E s \in DOMAIN placing : IsErr(placing[s].inner)
      /\ pc \in {"status", "done"} =>
            \A s \in DOMAIN placing :
                Returned(s) /\ ~IsErr(placing[s].inner)

C23_FireAndForget == []C23_Returns /\ <>(pc \in {"done", "failed"})

\* A tick that ended with both orders placed although the consumer ended
\* before any record reached it.
C23_Witness ==
    /\ pc = "done"
    /\ consumer = "dead"
    /\ logged = <<>>
    /\ DOMAIN placing = Symbols
    /\ \A s \in Symbols : placing[s].state = "done"

---------------------------------------------------------------------------
(* The Levels middleware (src/src/strategies/levels.rs) around a strategy  *)
(* that opens positions on BTC, in the ticks of the run loop of a backtest *)
(* (the Simulate adapter): SpecLevels.                                     *)

\* Number of ticks of a run.
MaxLevelTicks == 4
\* Largest number of positions open at once.
MaxLevelPositions == 2

\* The threshold of every configured trigger: 0.1, in units of 1 / RelUnit.
LevelThreshold == 1000
\* The duration of CloseAllAndTimeout.
LevelTimeout == Interval
\* Utc.ymd(1970, 1, 1): before every tick.
LevelsEpoch == -1
\* The closes the venue reports: 100, 130 and 150 on a scale of 50.
LevelPrices == {5000, 6500, 7500}

StopLoss(t) == [kind |-> "StopLoss", threshold |-> t]
TakeProfit(t) == [kind |-> "TakeProfit", threshold |-> t]
TrailingStopLoss(t) == [kind |-> "TrailingStopLoss", threshold |-> t]

ActClose == [kind |-> "Close"]
ActTimeout(d) == [kind |-> "CloseAllAndTimeout", duration |-> d]
ActQuit == [kind |-> "CloseAllAndQuit"]
\* Option::None of an Action.
NoAction == [kind |-> "None"]

Pair(t, a) == [trigger |-> t, action |-> a]

\* The configurations Levels::add builds.
LevelConfigs ==
    {<<Pair(TrailingStopLoss(LevelThreshold), ActClose)>>,
     <<Pair(StopLoss(LevelThreshold), ActClose),
       Pair(TrailingStopLoss(LevelThreshold), ActTimeout(LevelTimeout))>>,
     <<Pair(TakeProfit(LevelThreshold), ActTimeout(LevelTimeout))>>,
     <<Pair(TakeProfit(LevelThreshold), ActQuit)>>,
     <<Pair(StopLoss(LevelThreshold), ActTimeout(LevelTimeout)),
       Pair(TakeProfit(LevelThreshold), ActClose)>>}

\* Levels::new, then add for every pair.
NewLevels(triggers) ==
    [triggers |-> triggers,
     timeout_until |-> LevelsEpoch,
     positions |-> EmptyMap]

NewPositionData == [max_relative_pnl |-> 0, action |-> NoAction]

SetMax(S) == CHOOSE x \in S : \A y \in S : y <= x

\* A running maximum that never moves.
RunningMaxKeep(old, relative_pnl) == old

\* data.max_relative_pnl.max(relative_pnl)
RunningMax(old, relative_pnl) ==
    IF relative_pnl > old THEN relative_pnl ELSE old

\* The guard of a trigger's match arm.
Matches(trigger, relative_pnl, max_relative_pnl) ==
    CASE trigger.kind = "StopLoss" -> relative_pnl <= -trigger.threshold
      [] trigger.kind = "TakeProfit" -> relative_pnl >= trigger.threshold
      [] trigger.kind = "TrailingStopLoss" ->
            relative_pnl <= max_relative_pnl - trigger.threshold

\* Position::default() with its Uuid.
PositionWithId(id) == DefaultPosition @@ [id |-> id]

\* exchange.open(Position::default().long(..)) or .short(..)
OpenAs(ps, s, q, id) ==
    Append(ps, Fit(IF q > 0 THEN Long(PositionWithId(id), s, q)
                   ELSE Short(PositionWithId(id), s, -q)))

\* Levels::eval after the wrapped strategy's eval, on the positions ps at
\* the time t: the new Levels, the positions, whether quit() was called,
\* and what was observed.
LevelsEvalOn(lv, ps, t) ==
    LET ids == {ps[i].id : i \in DOMAIN ps}
        pos(id) == ps[CHOOSE i \in DOMAIN ps : ps[i].id = id]
        old(id) == IF id \in DOMAIN lv.positions THEN lv.positions[id]
                   ELSE NewPositionData
        rp(id) == RelativePnl(pos(id))
        mx(id) == RunningMax(old(id).max_relative_pnl, rp(id))
        matched(id) ==
            {k \in DOMAIN lv.triggers :
                Matches(lv.triggers[k].trigger, rp(id), mx(id))}
        act(id) == IF matched(id) = {} THEN old(id).action
                   ELSE lv.triggers[SetMax(matched(id))].action
        data == [id \in DOMAIN lv.positions \cup ids |->
                    IF id \in ids
                    THEN [max_relative_pnl |-> mx(id), action |-> act(id)]
                    ELSE lv.positions[id]]
        closed == [i \in DOMAIN ps |->
                      IF data[ps[i].id].action = ActClose
                      THEN ClosePosition(ps[i]) ELSE ps[i]]
        quits == \E i \in DOMAIN ps : data[ps[i].id].action = ActQuit
        timeouts == {i \in DOMAIN ps :
                        data[ps[i].id].action.kind = "CloseAllAndTimeout"}
        until == IF timeouts = {} THEN lv.timeout_until
                 ELSE t + data[ps[SetMax(timeouts)].id].action.duration
        forced == t <= until
    IN [levels |-> [lv EXCEPT !.positions = data, !.timeout_until = until],
        positions |-> IF quits \/ forced THEN CloseAll(closed) ELSE closed,
        quit |-> quits,
        log |-> [time |-> t,
                 relative_pnl |-> [id \in ids |-> rp(id)],
                 matched |-> [id \in ids |-> matched(id)],
                 applied |-> [id \in ids |-> data[id].action],
                 forced |-> forced]]

InitLevels ==
    /\ OrderIdle
    /\ CandleIdle
    /\ calc = NoCalc
    /\ MonitorIdle
    /\ w_last = NoCall
    /\ wallet = StartWallet
    /\ pc = "levels_eval"
    /\ api = "Simulate"
    /\ on_error = "Return"
    /\ current_time = 0
    /\ now = 0
    /\ real_time = FALSE
    /\ candles = "BTC" :> <<>>
    /\ markets = VenueMarkets(0)
    /\ open_positions = <<>>
    /\ result = "none"
    /\ err = "none"
    /\ hist = NoHist
    /\ \E k \in LevelConfigs : levels = NewLevels(k)
    /\ quit = FALSE
    /\ lv_log = <<>>

LevelsFrame ==
    UNCHANGED <<orderVars, marketVars, candleVars, calc, monitorVars, w_last,
                api, on_error, now, real_time, hist>>

\* A tick up to the end of strategy.eval: update (the wallet, the tick's
\* candle), valuate, then Levels::eval around a strategy that opens a long
\* or a short of one BTC, or nothing.
LevelsEval ==
    /\ pc = "levels_eval"
    /\ current_time < MaxLevelTicks * Interval
    /\ \E price \in LevelPrices, w \in UpdateWallet(api, wallet),
          q \in {-1, 0, 1} :
          LET c == "BTC" :> <<[time |-> current_time, close |-> price]>>
              valued == ValuateAll(open_positions, c, current_time)
              inner == IF q = 0 THEN valued
                       ELSE OpenAs(valued, "BTC", q, current_time)
              e == LevelsEvalOn(levels, inner, current_time)
          IN /\ q # 0 => Len(open_positions) < MaxLevelPositions
             /\ candles' = c
             /\ wallet' = w
             /\ open_positions' = e.positions
             /\ levels' = e.levels
             /\ quit' = (quit \/ e.quit)
             /\ lv_log' = Append(lv_log, e.log)
    /\ pc' = "levels_execute"
    /\ UNCHANGED <<current_time, result, err>>
    /\ LevelsFrame

\* The rest of the tick: valuate, execute, status, step.  An error of
\* execute ends the run (on_error is Return).
LevelsExecute ==
    /\ pc = "levels_execute"
    /\ \E x \in Execute(api,
                        ValuateAll(open_positions, candles, current_time),
                        wallet) :
          /\ wallet' = x.wallet
          /\ open_positions' = x.positions
          /\ result' = x.res
          /\ err' = x.why
          /\ IF x.res = "Ok"
             THEN /\ pc' = "levels_eval"
                  /\ current_time' = StepTime(current_time)
                  /\ candles' = StepCandles(candles)
             ELSE /\ pc' = "done"
                  /\ UNCHANGED <<current_time, candles>>
    /\ UNCHANGED levelsVars
    /\ LevelsFrame

NextLevels == LevelsEval \/ LevelsExecute

SpecLevels == InitLevels /\ [][NextLevels]_vars

\* The tick Levels::eval has just handled, and the positions it saw.
AfterEval == pc = "levels_execute"
Tick == Last(lv_log)
Seen == DOMAIN Tick.relative_pnl

\* The largest relative_pnl observed for a position so far.
LargestSeen(id) ==
    SetMax({lv_log[n].relative_pnl[id] :
               n \in {m \in DOMAIN lv_log :
                          id \in DOMAIN lv_log[m].relative_pnl}})

\* When a trigger fires, in the words of the claim.
Fires(trigger, relative_pnl, largest) ==
    \/ trigger.kind = "StopLoss" /\ relative_pnl <= -trigger.threshold
    \/ trigger.kind = "TakeProfit" /\ relative_pnl >= trigger.threshold
    \/ trigger.kind = "TrailingStopLoss"
          /\ relative_pnl <= largest - trigger.threshold

NextSizeZero(id) ==
    \A i \in DOMAIN open_positions :
        open_positions[i].id = id =>
            IsZeroBundle(open_positions[i].next_size)

\* C24: after the wrapped eval of every tick a position fires StopLoss(t)
\* iff relative_pnl <= -t, TakeProfit(t) iff relative_pnl >= t and
\* TrailingStopLoss(t) iff relative_pnl <= max_relative_pnl - t, with
\* max_relative_pnl the largest relative_pnl observed for the position on
\* this and all earlier ticks; a position with a fired trigger whose action
\* is Close has all its next_size entries zero after that eval.
C24_TriggersFire ==
    AfterEval =>
      \A id \in Seen :
        /\ \A k \in DOMAIN levels.triggers :
              k \in Tick.matched[id] <=>
                  Fires(levels.triggers[k].trigger, Tick.relative_pnl[id],
                        LargestSeen(id))
        /\ (\E k \in Tick.matched[id] :
                levels.triggers[k].action = ActClose) => NextSizeZero(id)

\* The action of the last configured pair that matched on the tick.
LastMatched(id) ==
    IF Tick.matched[id] = {} THEN NoAction
    ELSE levels.triggers[SetMax(Tick.matched[id])].action

\* C25: the action Levels applies to a position on a tick is the action of
\* the last pair that matches on that tick, and no action when no trigger
\* matches on that tick, whatever matched on earlier ticks.
C25_ActionOfThisTick ==
    AfterEval => \A id \in Seen : Tick.applied[id] = LastMatched(id)

\* The tick times at which a CloseAllAndTimeout action fired.
TimeoutFiredAt ==
    {lv_log[n].time :
        n \in {m \in DOMAIN lv_log :
                   \E id \in DOMAIN lv_log[m].matched :
                       /\ lv_log[m].matched[id] # {}
                       /\ levels.triggers[SetMax(lv_log[m].matched[id])]
                             .action.kind = "CloseAllAndTimeout"}}

InTimeout(t) ==
    \E T \in TimeoutFiredAt : T <= t /\ t <= T + LevelTimeout

\* C26: after a CloseAllAndTimeout(d) fired at tick time T, Levels forces
\* close_all on every tick with current_time <= T + d, so that every
\* position has next_size zero when execute() runs, and on later ticks it
\* forces nothing unless a trigger matches again: the timeout expires d
\* after the trigger fired.
C26_TimeoutExpires ==
    AfterEval =>
      /\ Tick.forced <=> InTimeout(Tick.time)
      /\ InTimeout(Tick.time) =>
            AllClosed(open_positions)

\* C27: after quit() was called in a tick the run loop completes the tick,
\* its execute() running on positions that are all closed, and strategy.eval
\* is never invoked for a later tick.
C27_QuitStops ==
    [][/\ (~quit /\ quit') => AllClosed(open_positions')
       /\ quit => ~(pc = "levels_eval" /\ pc' = "levels_execute")]_vars

\* The eval in which quit() is called leaves every position closed.
C27_QuitCloses == [][(~quit /\ quit') => AllClosed(open_positions')]_vars

\* The spec's trailing example: a long position gains more than the threshold,
\* falls back by the threshold while still in profit, and is closed.
C24_Witness ==
    /\ AfterEval
    /\ Len(lv_log) = 3
    /\ levels.triggers = <<Pair(TrailingStopLoss(LevelThreshold), ActClose)>>
    /\ 0 \in Seen
    /\ lv_log[2].relative_pnl[0] > LevelThreshold
    /\ Tick.relative_pnl[0] > 0
    /\ Tick.matched[0] = {1}
    /\ \E i \in DOMAIN open_positions :
          /\ open_positions[i].id = 0
          /\ Get(open_positions[i].current.bundle, "BTC") > 0
    /\ NextSizeZero(0)

---------------------------------------------------------------------------
(* Orders on symbols without a price, in the run loop: Spec.               *)

\* The symbols execute() is about to order that have no candle at
\* current_time: unwatched, or watched with no front candle.
Unpriced ==
    LET orders == [i \in DOMAIN open_positions |->
                      PositionOrder(open_positions[i])]
    IN IF OrderPanics(orders) THEN {}
       ELSE {o.market : o \in ActualOrders(orders)}
              \ DOMAIN CurrentValuation(candles)

C33_Step ==
    (pc \in {"execute", "h_execute"} /\ Unpriced # {}) =>
        /\ err' = "MarketClosed"
        /\ result' # "Panic"
        /\ open_positions' = open_positions
        /\ wallet' = wallet

\* C33: execute() never submits an order for a symbol that has no candle at
\* current_time (unwatched, or its front candle is None): the size change is
\* rejected with PrepareError::MarketClosed and handled through on_error,
\* never placed at price 0 and never a panic.
C33_NoOrderWithoutPrice == [][C33_Step]_vars

---------------------------------------------------------------------------
(* The candle part of Exchange::update (src/src/exchange/mod.rs), from any *)
(* queues a tick can start with, live and in a backtest: SpecUpdate.       *)

\* Longest queue a symbol holds when update() starts.
MaxQueue == 2
\* How late, beyond the moment the candle is due, update() can start.
MaxLag == 4

\* current_time of the tick: the venue has no BTC candle at 2 * Interval.
UpdateTimes == {0, 2 * Interval}

\* The wait_duration run_internal hands to update(): never above zero.
WaitAt(t, clock) == t + Interval - clock

\* A loop that stops one moment later.
StopWaitingLate(wait) == wait < -Interval

\* if *wait_duration <= -settings.interval { break }
StopWaiting(wait) == wait <= -Interval

\* Remove present candles from missing list: front().is_some()
StillMissing(missing, c) ==
    {s \in missing : ~(s \in DOMAIN c /\ c[s] # <<>>)}

InitUpdate ==
    /\ WalletIdle
    /\ OrderIdle
    /\ CandleIdle
    /\ MonitorIdle
    /\ LevelsIdle
    /\ pc = "update"
    /\ api = "Simulate"
    /\ on_error = "Return"
    /\ current_time \in UpdateTimes
    /\ now \in {current_time + Interval + d : d \in 0..MaxLag}
    /\ real_time = FALSE
    /\ \E watched \in SUBSET Symbols :
          candles \in [watched -> {GetCandles(s, current_time, n) :
                                      s \in Symbols, n \in 0..MaxQueue}]
    /\ \A s \in DOMAIN candles :
          \E n \in 0..MaxQueue : candles[s] = GetCandles(s, current_time, n)
    /\ markets = NewMarkets
    /\ open_positions = <<>>
    /\ result = "none"
    /\ err = "none"
    /\ hist = NoHist
    /\ calc = [op |-> "update", before |-> candles,
               wait0 |-> WaitAt(current_time, now),
               wait |-> WaitAt(current_time, now),
               missing |-> {}, requested |-> {}, rounds |-> 0, sleeps |-> 0]

UpdateFrame ==
    UNCHANGED <<walletVars, orderVars, marketVars, candleVars, monitorVars,
                levelsVars, api, on_error, current_time, real_time,
                open_positions, result, hist>>

\* let mut candles_missing = ...; while !candles_missing.is_empty()
UpdateBegin ==
    /\ pc = "update"
    /\ calc' = [calc EXCEPT !.missing = CandlesMissing(candles)]
    /\ pc' = IF CandlesMissing(candles) = {} THEN "u_done" ELSE "u_fetch"
    /\ UNCHANGED <<now, candles, err>>
    /\ UpdateFrame

\* One round of the loop: get_candles for every missing symbol, append,
\* drop the symbols that have a front entry, then break, sleep or leave.
FetchRound ==
    /\ pc = "u_fetch"
    /\ \E n \in [calc.missing -> Fetchable(current_time, now)],
          failing \in SUBSET calc.missing :
        \E got \in IF failing = {} THEN {calc.missing}
                   ELSE SUBSET (calc.missing \ failing) :
          LET appended ==
                  [s \in DOMAIN candles |->
                      IF s \in got
                      THEN candles[s] \o GetCandles(s, current_time, n[s])
                      ELSE candles[s]]
              still == StillMissing(calc.missing, appended)
          IN /\ candles' = appended
             /\ calc' = [calc EXCEPT
                           !.requested = @ \cup calc.missing,
                           !.rounds = @ + 1,
                           !.missing = IF failing = {} THEN still ELSE @]
             /\ IF failing # {}
                THEN pc' = "u_failed" /\ err' = "update"
                ELSE /\ UNCHANGED err
                     /\ pc' = IF StopWaiting(calc.wait) \/ still = {}
                              THEN "u_done" ELSE "u_sleep"
    /\ UNCHANGED now
    /\ UpdateFrame

\* tokio::time::sleep(3 s); *wait_duration = current_time + interval - now
SleepRetry ==
    /\ pc = "u_sleep"
    /\ now' = now + RetrySleep
    /\ calc' = [calc EXCEPT !.wait = WaitAt(current_time, now + RetrySleep),
                            !.sleeps = @ + 1]
    /\ pc' = "u_fetch"
    /\ UNCHANGED <<candles, err>>
    /\ UpdateFrame

NextUpdate == UpdateBegin \/ FetchRound \/ SleepRetry

SpecUpdate == InitUpdate /\ [][NextUpdate]_vars

\* The clock advances and get_candles returns.
FairSpecUpdate == SpecUpdate /\ WF_vars(NextUpdate)


\* The watched symbols with an empty queue or a front entry without candle.
NoFrontCandle(c) ==
    {s \in DOMAIN c : c[s] = <<>> \/ Head(c[s]).close = NoCandle}

\* The queues update() has left as they were when it started.
Untouched == {s \in DOMAIN candles : candles[s] = calc.before[s]}

\* C34: at the start of update() get_candles is requested for exactly the
\* watched symbols whose queue is empty or whose front entry holds no
\* candle, and the queues of all other watched symbols stay unchanged.
C34_RequestsNoFrontCandle ==
    pc # "update" =>
        /\ calc.rounds = 0 => calc.missing = NoFrontCandle(calc.before)
        /\ calc.rounds > 0 => NoFrontCandle(calc.before) \subseteq calc.requested
        /\ DOMAIN candles \ NoFrontCandle(calc.before) \subseteq Untouched

\* What the code requests: the symbols with an empty queue, no other.
C34_RequestsEmpty ==
    pc # "update" =>
        /\ calc.rounds = 0 => calc.missing = CandlesMissing(calc.before)
        /\ calc.rounds > 0 => calc.requested = CandlesMissing(calc.before)
        /\ DOMAIN candles \ CandlesMissing(calc.before) \subseteq Untouched


UpdateOver == pc \in {"u_done", "u_failed"}

\* wait <= -interval when update() starts: a backtest tick.
Backtest == calc.wait0 <= -Interval

\* The loop sleeps only with symbols missing and budget left, and is left
\* without failure only with nothing missing or the budget exhausted.
LoopEnds ==
    /\ pc = "u_sleep" => calc.missing # {} /\ ~StopWaiting(calc.wait)
    /\ (pc = "u_done" /\ calc.rounds > 0) =>
           calc.missing = {} \/ StopWaiting(calc.wait)
    /\ (pc = "u_fetch" /\ calc.rounds > 0) => calc.sleeps = calc.rounds

\* C35 as stated: the loop terminates, ends with nothing missing or the
\* budget exhausted, and a backtest tick performs exactly one fetch round
\* and never sleeps.
C35_Original ==
    /\ <>UpdateOver
    /\ [](/\ LoopEnds
          /\ (Backtest /\ UpdateOver) => calc.rounds = 1 /\ calc.sleeps = 0)

\* C35 amended: the loop terminates, ends with nothing missing or the budget
\* exhausted, and a backtest tick never sleeps and performs one fetch round
\* when some watched queue is empty at its start, none otherwise.
C35_Amended ==
    /\ <>UpdateOver
    /\ [](/\ LoopEnds
          /\ Backtest => calc.sleeps = 0 /\ calc.rounds <= 1
          /\ (Backtest /\ UpdateOver) =>
                 (calc.rounds = 1 <=> CandlesMissing(calc.before) # {}))

\* A backtest tick left after one round with a symbol still missing.
C35_Witness ==
    /\ pc = "u_done"
    /\ Backtest
    /\ calc.rounds = 1
    /\ calc.missing # {}

---------------------------------------------------------------------------
(* The partitioned Exchange::execute of src/src/exchange.rs: the orders of *)
(* a tick in two batches, each placed concurrently: SpecPartition.         *)

\* Largest aggregate size of a symbol, held or wanted.
MaxPartSize == 1

PartSymbols == Symbols \cup {"LTC"}
PartSizes == (-MaxPartSize)..MaxPartSize

\* A partition that also takes the orders that keep the magnitude.
DecreasesOrKeeps(curr, next, s) == Abs(next[s]) <= Abs(curr[s])

\* partition(|order| next.abs() < curr.abs()): the first half.
Decreases(curr, next, s) == Abs(next[s]) < Abs(curr[s])

\* if size != Decimal::ZERO { orders.push(..) }
Ordered(curr, next) == {s \in PartSymbols : next[s] - curr[s] # 0}

DecreaseOrders(curr, next) ==
    {s \in Ordered(curr, next) : Decreases(curr, next, s)}

IncreaseOrders(curr, next) == Ordered(curr, next) \ DecreaseOrders(curr, next)

\* The orders of the batch that self.order(..) is awaiting.
Batch ==
    IF pc = "x_dec" THEN DecreaseOrders(calc.curr, calc.next)
    ELSE IF pc = "x_inc" THEN IncreaseOrders(calc.curr, calc.next)
    ELSE {}

InitPartition ==
    /\ WalletIdle
    /\ OrderIdle
    /\ CandleIdle
    /\ LevelsIdle
    /\ chan = <<>> /\ consumer = "none" /\ logged = <<>>
    /\ pc = "x_dec"
    /\ api \in {"Simulate", "Ftx"}
    /\ on_error = "Return"
    /\ current_time = 0
    /\ now = 0
    /\ real_time = FALSE
    /\ candles = EmptyMap
    /\ markets = NewMarkets
    /\ open_positions = <<>>
    /\ result = "none"
    /\ err = "none"
    /\ hist = NoHist
    /\ \E curr \in [PartSymbols -> PartSizes], next \in [PartSymbols -> PartSizes] :
          /\ calc = [op |-> "execute", curr |-> curr, next |-> next]
          /\ placing = [s \in Ordered(curr, next) |-> "new"]

PartitionFrame ==
    UNCHANGED <<walletVars, orderVars, marketVars, candleVars, levelsVars,
                chan, consumer, logged, calc, api, on_error, current_time,
                now, real_time, candles, open_positions, result, hist>>

\* join_all polls the future of self.api.place_order(order).
SubmitOrder(s) ==
    /\ s \in Batch
    /\ placing[s] = "new"
    /\ placing' = [placing EXCEPT ![s] = "inflight"]
    /\ UNCHANGED <<pc, err>>
    /\ PartitionFrame

\* place_order returns an OrderInfo.
OrderFilled(s) ==
    /\ s \in Batch
    /\ placing[s] = "inflight"
    /\ placing' = [placing EXCEPT ![s] = "info"]
    /\ UNCHANGED <<pc, err>>
    /\ PartitionFrame

\* place_order returns an ApiError (the venue; not the backtest).
OrderFails(s) ==
    /\ s \in Batch
    /\ api = "Ftx"
    /\ placing[s] = "inflight"
    /\ placing' = [placing EXCEPT ![s] = "error"]
    /\ UNCHANGED <<pc, err>>
    /\ PartitionFrame

\* join_all(..).await.into_iter().collect() and the `?` behind it.
BatchReturns ==
    /\ pc \in {"x_dec", "x_inc"}
    /\ \A s \in Batch : placing[s] \in {"info", "error"}
    /\ IF \E s \in Batch : placing[s] = "error"
       THEN pc' = "x_failed" /\ err' = "execute"
       ELSE pc' = (IF pc = "x_dec" THEN "x_inc" ELSE "x_done") /\ UNCHANGED err
    /\ UNCHANGED placing
    /\ PartitionFrame

NextPartition ==
    \/ \E s \in PartSymbols : SubmitOrder(s)
    \/ \E s \in PartSymbols : OrderFilled(s)
    \/ \E s \in PartSymbols : OrderFails(s)
    \/ BatchReturns

SpecPartition == InitPartition /\ [][NextPartition]_vars

Shrinks(s) == Abs(calc.next[s]) < Abs(calc.curr[s])

\* C36: an order on a symbol with |next| >= |curr| is submitted only when
\* every order on a symbol with |next| < |curr| has returned its OrderInfo;
\* after a failed decrease order no increase order is ever submitted.
C36_DecreaseFirst ==
    \A s \in DOMAIN placing :
        (~Shrinks(s) /\ placing[s] # "new") =>
            \A d \in DOMAIN placing : Shrinks(d) => placing[d] = "info"

\* An increase order in flight behind a decrease order that has returned.
C36_Witness ==
    \E s, d \in DOMAIN placing :
        /\ ~Shrinks(s) /\ placing[s] = "inflight"
        /\ Shrinks(d) /\ placing[d] = "info"

\* Two orders of one partition in flight at once.
C36_Concurrent ==
    \E s, d \in DOMAIN placing :
        /\ s # d
        /\ Shrinks(s) = Shrinks(d)
        /\ placing[s] = "inflight" /\ placing[d] = "inflight"

\* A failed decrease order ends execute() with the increase orders unsent.
C36_FailedDecrease ==
    /\ pc = "x_failed"
    /\ \E d \in DOMAIN placing : Shrinks(d) /\ placing[d] = "error"
    /\ \E s \in DOMAIN placing : ~Shrinks(s) /\ placing[s] = "new"

---------------------------------------------------------------------------
(* The valuation of the positions that execute() meets, in the run loop:   *)
(* Spec.                                                                   *)

ExecuteRuns == pc \in {"execute", "h_execute"}

\* C37: whenever execute() runs, in the tick and in the on_error path, all
\* open positions carry the same valuation and the same non-empty time,
\* also the positions opened in an eval that failed.
C37_SameValuation ==
    ExecuteRuns =>
        \A i, j \in 1..Len(open_positions) :
            /\ open_positions[i].current.time # NoTime
            /\ open_positions[i].current.time = open_positions[j].current.time
            /\ open_positions[i].current.valuation
                   = open_positions[j].current.valuation

\* In the tick itself the claim holds: valuate() has run before execute().
C37_InTick ==
    pc = "execute" =>
        \A i, j \in 1..Len(open_positions) :
            /\ open_positions[i].current.time = current_time
            /\ open_positions[i].current.valuation
                   = open_positions[j].current.valuation

---------------------------------------------------------------------------
(* The engine's exposure against the fills the adapter confirmed, in the   *)
(* run loop: Spec.                                                         *)

\* Sum over the open positions of current.bundle[symbol].
Exposure(ps, s) ==
    SumOver(DOMAIN ps, [i \in DOMAIN ps |-> Get(ps[i].current.bundle, s)])

\* An execute() of the tick or of the handler that has not panicked.
Executed ==
    /\ pc \in {"execute", "h_execute"}
    /\ pc' # pc
    /\ result' # "Panic"

\* Every step moves the exposure of every symbol by the fills the adapter
\* confirmed in it: the fills of its execute(), nothing in any other step.
C38_Step ==
    \A s \in Symbols :
        Exposure(open_positions', s) - Exposure(open_positions, s)
            = IF Executed THEN Get(hist'.filled, s) ELSE 0

\* C38: between ticks the net exposure of every symbol equals the signed
\* sum of the fills confirmed since the start of the run (both are zero at
\* the start, and every step adds the same to both), also after a batch in
\* which one place_order failed and after positions were removed.
C38_ExposureIsFills == [][C38_Step]_vars

\* The same for the ticks in which every place_order succeeded and no
\* position was removed.
C38_QuietStep ==
    (/\ Executed
     /\ hist'.exec = "Ok"
     /\ Len(open_positions') = Len(open_positions)) => C38_Step

C38_Quiet == [][C38_QuietStep]_vars


\* Exchange::order returning the error of one place_order of a batch in
\* which another one was filled (SpecOrder): the fill reaches no position.
C38_FailedBatch ==
    /\ ord_out.state = "done"
    /\ ord_out.res = "ApiError"
    /\ ord_out.adjusted = <<>>
    /\ \E s \in DOMAIN ord_out.infos :
          ~IsErr(ord_out.infos[s]) /\ ord_out.infos[s].size > 0

---------------------------------------------------------------------------
(* The value of a closed position, over the lives of SpecLife. *)

\* What the holdings of a position are worth at its current valuation.
HoldingsWorth(p) == BundleValue(p.current.bundle, p.current.valuation)

\* C39: a position that a resize has closed (current bundle all zero) has
\* value() 0, long or short; a position that holds exposure has a value()
\* other than 0 unless its holdings are worth nothing: the value test of
\* the removal agrees with the all-sizes-zero test.
C39_ClosedIsWorthless ==
    \A i \in DOMAIN open_positions :
        LET p == open_positions[i]
        IN /\ (p.deltas # <<>> /\ ~HoldsSize(p)) => Value(p) = 0
           /\ (HoldsSize(p) /\ HoldingsWorth(p) # 0) => Value(p) # 0

\* The second half alone.
C39_HeldIsWorth ==
    \A i \in DOMAIN open_positions :
        LET p == open_positions[i]
        IN (HoldsSize(p) /\ HoldingsWorth(p) # 0) => Value(p) # 0

---------------------------------------------------------------------------
(* ForwardFill and the order of time, over the calls of SpecCandles. *)

\* The entries of the answer that ForwardFill filled from its cache.
Substituted ==
    {i \in DOMAIN call.out :
        /\ ~IsNone(call.out[i])
        /\ call.under = <<>> \/ IsNone(call.under[i])}

\* C40: ForwardFill never looks ahead: a cached candle substituted for a
\* missing entry with key time t has a time of its own that is <= t, over
\* every sequence of get_candles calls, also for an earlier key after a
\* later window was fetched.
C40_NoLookAhead ==
    (call.layer = "ForwardFill" /\ call.res = "Ok") =>
        \A i \in Substituted : CandleTime(call.out[i]) <= call.out[i].time

\* Within one answer the substituted candle is never a later one: the
\* claim for a layer that starts without a cache.
C40_FirstCall ==
    (call.layer = "ForwardFill" /\ call.res = "Ok" /\ ~HasSeen(call.cache)) =>
        \A i \in Substituted : CandleTime(call.out[i]) <= call.out[i].time

===========================================================================
